---------------------------- MODULE Spec2Model ----------------------------
(***************************************************************************)
(* A model of the PVAnalysis mock position-velocity pipeline:              *)
(*   src/pvsilhouette/UlrichEnvelope.py   velrho (the streamline cubic)    *)
(*   src/pvfitting/mockpvd.py             MockPVD (build, generate_pvd,    *)
(*                                        generate_mockpvd, kernel cache)  *)
(*   src/pvsilhouette/_pvsilhouette.py    PVSilhouette (FITS readers, the  *)
(*                                        fit-result table)                *)
(*                                                                         *)
(* Real numbers are exact rationals <<n, d>> (d > 0, lowest terms); the    *)
(* pair <<0, 0>> is NaN and propagates through arithmetic as numpy's NaN   *)
(* does.  Square and cube roots are taken exactly, and the inputs are      *)
(* drawn from families on which every root the code takes is rational.     *)
(***************************************************************************)
EXTENDS Integers, Sequences, FiniteSets, TLC

(***************************************************************************)
(* Exact rational arithmetic with NaN.                                     *)
(***************************************************************************)
Abs(n) == IF n < 0 THEN -n ELSE n

RECURSIVE GCD(_, _)
GCD(a, b) == IF b = 0 THEN a ELSE GCD(b, a % b)

NaN == <<0, 0>>

IsNaN(x) == x[2] = 0

RNorm(n, d) ==
    IF d = 0 THEN NaN
    ELSE LET g == GCD(Abs(n), Abs(d))
             s == IF d < 0 THEN -1 ELSE 1
         IN  <<s * (n \div g), s * (d \div g)>>

R(n) == <<n, 1>>

LCM(a, b) == (a \div GCD(a, b)) * b

RAdd(x, y) ==
    IF IsNaN(x) \/ IsNaN(y) THEN NaN
    ELSE LET l == LCM(x[2], y[2])
         IN  RNorm(x[1] * (l \div x[2]) + y[1] * (l \div y[2]), l)

RNeg(x) == IF IsNaN(x) THEN NaN ELSE <<-x[1], x[2]>>

RSub(x, y) == RAdd(x, RNeg(y))

RMul(x, y) ==
    IF IsNaN(x) \/ IsNaN(y) THEN NaN
    ELSE LET g1 == GCD(Abs(x[1]), y[2])
             g2 == GCD(Abs(y[1]), x[2])
         IN  RNorm((x[1] \div g1) * (y[1] \div g2), (x[2] \div g2) * (y[2] \div g1))

\* x / y as numpy divides: 0/0 is NaN; a non-zero x over 0 is an infinity,
\* which no call of the model produces (the callers divide by 0 only 0).
RDiv(x, y) ==
    IF IsNaN(x) \/ IsNaN(y) \/ y[1] = 0 THEN NaN
    ELSE RMul(x, IF y[1] < 0 THEN <<-y[2], -y[1]>> ELSE <<y[2], y[1]>>)

\* Comparisons are FALSE when either side is NaN, as in IEEE arithmetic.
RLt(x, y) ==
    /\ ~IsNaN(x) /\ ~IsNaN(y)
    /\ LET l == LCM(x[2], y[2]) IN x[1] * (l \div x[2]) < y[1] * (l \div y[2])

RLe(x, y) == ~IsNaN(x) /\ ~IsNaN(y) /\ ~RLt(y, x)

REq(x, y) == ~IsNaN(x) /\ ~IsNaN(y) /\ x = y

RAbs(x) == IF IsNaN(x) THEN NaN ELSE <<Abs(x[1]), x[2]>>

RSign(x) == IF IsNaN(x) THEN NaN ELSE R(IF x[1] > 0 THEN 1 ELSE IF x[1] < 0 THEN -1 ELSE 0)

RCube(x) == RMul(x, RMul(x, x))

RSquare(x) == RMul(x, x)

\* ndarray.clip(lo, None) and ndarray.clip(lo, hi)
ClipLow(x, lo) == IF RLt(x, lo) THEN lo ELSE x

Clip(x, lo, hi) == IF RLt(x, lo) THEN lo ELSE IF RLt(hi, x) THEN hi ELSE x

\* floor of the k-th root of n, by bisection on lo..hi
RECURSIVE IRoot(_, _, _, _)
IRoot(n, k, lo, hi) ==
    IF lo >= hi THEN lo
    ELSE LET mid == (lo + hi + 1) \div 2
             pw  == IF k = 2 THEN mid * mid ELSE mid * mid * mid
         IN  IF pw <= n THEN IRoot(n, k, mid, hi) ELSE IRoot(n, k, lo, mid - 1)

\* np.sqrt: NaN for a negative argument
RSqrt(x) ==
    IF IsNaN(x) \/ x[1] < 0 THEN NaN
    ELSE <<IRoot(x[1], 2, 0, 46340), IRoot(x[2], 2, 0, 46340)>>

\* x ** (1/3): NaN for a negative argument (numpy's float power)
RCbrt(x) ==
    IF IsNaN(x) \/ x[1] < 0 THEN NaN
    ELSE <<IRoot(x[1], 3, 0, 1290), IRoot(x[2], 3, 0, 1290)>>


(***************************************************************************)
(* State.                                                                  *)
(*   velrho (UlrichEnvelope.py): one sample of the radius and theta arrays *)
(*   and what velrho computes for it.                                      *)
(***************************************************************************)
VARIABLES
    vel_pc,      \* "in": sample drawn, velrho not yet run; "done": velrho returned
    radius,      \* the sample's radius argument (units of Rc)
    costheta,    \* cos(theta) of the sample's theta argument, signed
    vel_out      \* velrho's intermediate and returned values for the sample

velVars == <<vel_pc, radius, costheta, vel_out>>

(***************************************************************************)
(*   PVSilhouette (_pvsilhouette.py): one object, the files it reads and   *)
(*   writes, and how its last method call ended.                           *)
(***************************************************************************)
VARIABLES
    obj,         \* the PVSilhouette object's attributes: name -> value (hasattr = in DOMAIN)
    files,       \* text files on disk: name -> sequence of lines
    lastcall,    \* the last method call: its name, arguments and return value
    raised,      \* "none", or the exception the last call ended with
    printed,     \* what the last call printed
    ncalls       \* how many methods have been called on the object

fitsVars == <<obj, files, lastcall, raised, printed, ncalls>>

(***************************************************************************)
(*   Nested3DGrid (pvfitting.grid): the grid last built, and the last line *)
(*   integration done on it.                                               *)
(***************************************************************************)
VARIABLES
    grid,        \* the grid's levels, coarsest first
    gfield,      \* the per-level field handed to integrate_along
    gout,        \* the 2D map integrate_along returned
    graised      \* "none", or the error the last call ended with

gridVars == <<grid, gfield, gout, graised>>

(***************************************************************************)
(*   MockPVD (mockpvd.py): the instance in use, the process-wide values of *)
(*   the module pvfitting.precalculation, and the last method call.        *)
(***************************************************************************)
VARIABLES
    mpvd,        \* the MockPVD instance's attributes
    cache,       \* precalculation.vedge, .gauss_v, .gauss_xy: <<>> (None) until set
    mcall,       \* the last call: its name, arguments, what it used and returned
    mraised      \* "none", or the exception the last call ended with

mockVars == <<mpvd, cache, mcall, mraised>>

vars == <<velVars, fitsVars, gridVars, mockVars>>

notVel == <<fitsVars, gridVars, mockVars>>

notFits == <<velVars, gridVars, mockVars>>

notGrid == <<velVars, fitsVars, mockVars>>

notMock == <<velVars, fitsVars, gridVars>>

GridIdle == grid = <<>> /\ gfield = <<>> /\ gout = <<>> /\ graised = "idle"

MockIdle == mpvd = <<>> /\ cache = <<>> /\ mcall = <<>> /\ mraised = "idle"

FitsIdle ==
    /\ obj = <<>> /\ files = <<>> /\ lastcall = <<>>
    /\ raised = "idle" /\ printed = <<>> /\ ncalls = 0

(***************************************************************************)
(* UlrichEnvelope.velrho                                                   *)
(***************************************************************************)
\* The clip floor of lines 12 and 14 (1e-10 in the source), scaled to 1e-3
\* so that the products the cubic takes of it stay within TLC's integers.
Eps == <<1, 1000>>

\* Case A, radius >= 1 (lines 20-23).  The source factors the classical
\* formula as D^(1/6) * ((1 + q/sqrt(D))^(1/3) - (1 - q/sqrt(D))^(1/3)); over
\* the reals, with D > 0 and q <= sqrt(D), each product D^(1/6) * (1 +- qD)^(1/3)
\* is the cube root of sqrt(D) +- q, which is how it is evaluated here (the
\* factors themselves are irrational for every rational sample).
Mu0CaseA(p, q) ==
    LET D  == RAdd(RSquare(q), RCube(p))
        sD == RSqrt(D)
    IN  RSub(RCbrt(RAdd(sD, q)), RCbrt(RSub(sD, q)))

Mu0CaseBNoSecondRoot(q, D) == RCbrt(RAdd(q, RSqrt(D)))

\* Case B, radius < 1 and D >= 0 (line 28)
Mu0CaseB(q, D) == RAdd(RCbrt(RAdd(q, RSqrt(D))), RCbrt(RSub(q, RSqrt(D))))

\* cos(arccos(c) / 3): the a in [1/2, 1] with 4a^3 - 3a = c, for c in [-1, 1]
\* (arccos maps into [0, pi], so the third of it lies in [0, pi/3]).
CosThirdArccos(c) ==
    IF IsNaN(c) \/ RLt(R(1), RAbs(c)) THEN NaN
    ELSE LET cands == {<<n, d>> \in (1..10) \X (1..10) :
                          /\ GCD(n, d) = 1 /\ d <= 2 * n /\ n <= d
                          /\ RSub(RMul(R(4), RCube(<<n, d>>)), RMul(R(3), <<n, d>>)) = c}
         IN  CHOOSE a \in cands : TRUE

\* Case C, D < 0 (lines 31-32): p_minus^(-3/2) is 1 / sqrt(p_minus)^3
Mu0CaseC(q, p_minus) ==
    LET s == RSqrt(p_minus)
    IN  RMul(RMul(R(2), s), CosThirdArccos(RDiv(q, RCube(s))))

\* A velocity or density c * sqrt(x) is held as the pair <<c, x>> of its
\* rational factor and its radicand; <<c, Inf>> is c times +infinity.
Inf == <<1, 0>>

SurdNaN == <<NaN, NaN>>

SurdZero == <<R(0), R(1)>>

\* c * np.sqrt(x)
Surd(c, x) ==
    IF IsNaN(c) \/ IsNaN(x) \/ x[1] < 0 THEN SurdNaN
    ELSE IF c = R(0) \/ x = R(0) THEN SurdZero
    ELSE <<c, x>>

\* the branch masks of lines 20, 27 and 30
MaskCWide(D) == RLe(D, R(0))

MaskA(r) == RLe(R(1), r)

MaskB(r, D) == RLt(r, R(1)) /\ RLe(R(0), D)

MaskC(D) == RLt(D, R(0))

\* velrho for one sample: lines 12-38.  The three masked assignments run in
\* the source's order on an mu0 that starts as NaN.  sin(theta)^2 is
\* 1 - cos(theta)^2.
velrho(rad, cost) ==
    LET r       == ClipLow(rad, Eps)
        parity  == RSign(cost)
        mu      == Clip(RAbs(cost), Eps, R(1))
        p       == RDiv(RSub(r, R(1)), R(3))
        q       == RDiv(RMul(mu, r), R(2))
        cA      == MaskA(r)
        p_minus == ClipLow(RNeg(p), R(0))
        D       == RSub(RSquare(q), RCube(p_minus))
        cB      == MaskB(r, D)
        cC      == MaskC(D)
        m0      == NaN
        m1      == IF cA THEN Mu0CaseA(p, q) ELSE m0
        m2      == IF cB THEN Mu0CaseB(q, D) ELSE m1
        m3      == IF cC THEN Mu0CaseC(q, p_minus) ELSE m2
        mm      == RDiv(mu, m3)
        sin2    == RSub(R(1), RSquare(cost))
        den     == RAdd(RMul(RDiv(R(2), r), RSquare(m3)), mm)
    IN  [vr  |-> Surd(R(-1), RDiv(RAdd(R(1), mm), r)),
         vt  |-> Surd(RMul(parity, RSub(m3, mu)), RDiv(RDiv(RAdd(R(1), mm), sin2), r)),
         vp  |-> Surd(R(1), RDiv(RSub(R(1), mm), r)),
         rho |-> Surd(RDiv(RDiv(R(1), r), den), RDiv(RDiv(R(1), r), RAdd(R(1), mm))),
         den |-> den,
         radius |-> r, parity |-> parity, mu |-> mu, p |-> p, q |-> q,
         fired |-> (IF cA THEN {"A"} ELSE {}) \cup (IF cB THEN {"B"} ELSE {})
                   \cup (IF cC THEN {"C"} ELSE {}),
         mu0 |-> m3, mm |-> mm]

(***************************************************************************)
(* The samples velrho is run on.  Each family is parametrised by the roots *)
(* the matching branch takes, so that they are rational:                   *)
(*   A: sqrt(D) + q = u^3, sqrt(D) - q = w^3  (p = u w >= 0)               *)
(*   B: q + sqrt(D) = u^3, q - sqrt(D) = w^3  (-p = u w > 0)               *)
(*   C: sqrt(-p) = s, cos(arccos(.)/3) = a                                 *)
(***************************************************************************)
MaxDen == 4

GenQ == {RNorm(n, d) : <<n, d>> \in {x \in (0..MaxDen) \X (1..MaxDen) : x[1] <= x[2]}}

GenS == {<<1, 2>>, <<1, 3>>}

GenA == {<<7, 8>>, <<8, 9>>, <<9, 10>>}

SampleOf(r, twoq) == <<r, RDiv(twoq, r)>>

SamplesA ==
    {SampleOf(RAdd(R(1), RMul(R(3), RMul(uw[1], uw[2]))), RSub(RCube(uw[1]), RCube(uw[2]))) :
        uw \in {x \in GenQ \X GenQ : RLt(x[2], x[1])}}

SamplesB ==
    {SampleOf(RSub(R(1), RMul(R(3), RMul(uw[1], uw[2]))), RAdd(RCube(uw[1]), RCube(uw[2]))) :
        uw \in {x \in GenQ \X GenQ :
                   /\ RLe(x[2], x[1]) /\ RLt(R(0), x[2])
                   /\ RLt(RMul(R(3), RMul(x[1], x[2])), R(1))}}

SamplesC ==
    {SampleOf(RSub(R(1), RMul(R(3), RSquare(sa[1]))),
              RMul(R(2), RMul(RCube(sa[1]),
                   RSub(RMul(R(4), RCube(sa[2])), RMul(R(3), sa[2]))))) :
        sa \in GenS \X GenA}

\* <<radius, |cos theta|>> with 0 < |cos theta| <= 1, and theta = pi/2 at radius 1
Samples ==
    {s \in SamplesA \cup SamplesB \cup SamplesC : RLe(s[2], R(1))} \cup {<<R(1), R(0)>>}

VelIdle == vel_pc = "idle" /\ radius = NaN /\ costheta = NaN /\ vel_out = <<>>

VelInit ==
    /\ vel_pc = "in"
    /\ \E s \in Samples, sg \in {-1, 1} :
          radius = s[1] /\ costheta = RMul(R(sg), s[2])
    /\ vel_out = <<>>

\* vr, vt, vp, rho = velrho(radius, theta)
Velrho ==
    /\ vel_pc = "in"
    /\ vel_out' = velrho(radius, costheta)
    /\ vel_pc' = "done"
    /\ UNCHANGED <<radius, costheta>>
    /\ UNCHANGED notVel

\* the caller passes the next sample
NextSample ==
    /\ vel_pc = "done"
    /\ \E s \in Samples, sg \in {-1, 1} :
          radius' = s[1] /\ costheta' = RMul(R(sg), s[2])
    /\ vel_out' = <<>>
    /\ vel_pc' = "in"
    /\ UNCHANGED notVel

InitVel == VelInit /\ FitsIdle /\ GridIdle /\ MockIdle

NextVel == Velrho \/ NextSample

SpecVel == InitVel /\ [][NextVel]_vars

CubicResidual(o, kp, kq) ==
    RSub(RAdd(RCube(o.mu0), RMul(RMul(R(kp), o.p), o.mu0)), RMul(R(kq), o.q))

\* C4 (as amended): after velrho, whichever of the three branches applied,
\* mu0 satisfies mu0^3 + 3 p mu0 - 2 q = 0 with p = (radius - 1)/3 and
\* q = mu radius/2, that is mu0^3 + (radius - 1) mu0 - mu radius = 0.
C4_CubicHolds ==
    vel_pc = "done" => CubicResidual(vel_out, 3, 2) = R(0)

\* C4 as stated: mu0^3 + p mu0 - q = 0 (here on the samples whose cos(theta)
\* the clip leaves alone)
C4_CubicAsStated ==
    (vel_pc = "done" /\ RLe(Eps, RAbs(costheta))) => CubicResidual(vel_out, 1, 1) = R(0)

\* velrho has run on a sample of branch B (radius < 1, D >= 0) off the pole
C4_Witness ==
    /\ vel_pc = "done" /\ vel_out.fired = {"B"}
    /\ RLt(vel_out.mu, R(1)) /\ ~IsNaN(vel_out.mu0)


(***************************************************************************)
(* PVSilhouette: reading FITS files (_pvsilhouette.py lines 34-167).       *)
(* A FITS file is its header (a record: a key is present iff it is a field)*)
(* and its data array.  Python sequences are TLA+ sequences; an index i of *)
(* the source is position i + 1 here.                                      *)
(***************************************************************************)
\* Python's None
None == <<>>

\* the element of a one-element set; {e(x) : x \in {v}} is the value of e with
\* x naming the value v, computed once
The(S) == CHOOSE y \in S : TRUE

Has(f, k) == k \in DOMAIN f

\* self.<k> = v
SetAttr(o, k, v) == (k :> v) @@ o

\* np.arange(n)
Arange(n) == [i \in 1..n |-> i - 1]

\* index of the first minimum of a sequence of rationals: np.argmin
ArgMin(arr) ==
    The({CHOOSE i \in 0..(Len(a) - 1) :
            /\ \A j \in 1..Len(a) : RLe(a[i + 1], a[j])
            /\ \A j \in 1..i : RLt(a[i + 1], a[j]) : a \in {arr}})

\* a[i0:i1 + 1], for 0 <= i0 and i1 < len(a)
Slice(a, i0, i1) == SubSeq(a, i0 + 1, i1 + 1)

\* (np.arange(NAXIS) - CRPIX + 1) * CDELT
AxisOf(naxis, crpix, cdelt) ==
    [i \in 1..naxis |-> RMul(RSub(R(Arange(naxis)[i] + 1), crpix), cdelt)]

MapSeq(arr, Op(_)) == The({[i \in 1..Len(a) |-> Op(a[i])] : a \in {arr}})

\* astropy's constants.c.si.value / 1.e3 (km/s), scaled by 1e-3
cKms == R(300)

\* (1. - v / h['RESTFRQ']) * cc / 1.e3 - vsys
FreqToVel(f, restfrq, vsys) ==
    RSub(RMul(RSub(R(1), RDiv(f, restfrq)), cKms), vsys)

\* the automatic noise level (lines 78, 143-144), a standard deviation of
\* edge pixels; only that it is a number computed from the data matters here
AutoSigma == <<"std of the data's edge channels">>

\* read_pvfits, lines 139-167.  An exception ends the call at the statement
\* that raises it: the attributes assigned before it stay assigned.
read_pvfits(o, f, dist, vsys, xmax, vmin, vmax, sigma) ==
    LET h    == f.header
        sig  == IF sigma = None THEN AutoSigma ELSE sigma
        pr0  == IF sigma = None THEN <<"sigma = ...">> ELSE <<>>
    IN
    The({
    The({
    LET x    == Slice(x0, i0, i1)
        v    == Slice(v0, j0, j1)
        d    == [j \in 1..Len(v) |-> Slice(f.data[j0 + j], i0, i1)]
    IN  IF Len(x) < 2 \/ Len(v) < 2
        THEN [obj |-> o, raised |-> "IndexError", printed |-> pr0, ret |-> None]
        ELSE
        LET dx   == RSub(x[2], x[1])
            dv   == RSub(v[2], v[1])
            hasb == Has(h, "BMAJ")
        IN  IF hasb /\ (~Has(h, "BMIN") \/ ~Has(h, "BPA"))
            THEN \* line 156 raises before anything is assigned
                 [obj |-> o, raised |-> "KeyError", printed |-> pr0, ret |-> None]
            ELSE
            LET bmaj == IF hasb THEN RMul(RMul(h.BMAJ, R(3600)), dist) ELSE RAbs(dx)
                dNyq == IF hasb THEN RDiv(bmaj, R(2)) ELSE RAbs(dx)
                beam == IF hasb
                        THEN <<RMul(RMul(h.BMAJ, R(3600)), dist),
                               RMul(RMul(h.BMIN, R(3600)), dist), h.BPA>>
                        ELSE None
                pr1  == IF hasb THEN pr0 ELSE Append(pr0, "No valid beam in the FITS file.")
                o1   == SetAttr(SetAttr(SetAttr(SetAttr(SetAttr(SetAttr(SetAttr(SetAttr(
                        SetAttr(SetAttr(o, "beam", beam),
                        "x", x), "dx", dx), "v", v), "dv", dv),
                        "data", d), "header", h), "sigma", sig),
                        "bmaj", bmaj), "dNyquist", dNyq)
            IN  IF ~Has(h, "BMIN")
                THEN \* line 165: h['BMIN'] raises KeyError
                     [obj |-> o1, raised |-> "KeyError", printed |-> pr1, ret |-> None]
                ELSE
                LET o2 == SetAttr(SetAttr(SetAttr(SetAttr(o1,
                          "bmin", RMul(RMul(h.BMIN, R(3600)), dist)),
                          "pvfits", f.name), "dist", dist), "vsys", vsys)
                IN  [obj |-> o2, raised |-> "none", printed |-> pr1,
                     ret |-> [x |-> x, v |-> v, data |-> d, header |-> h, sigma |-> sig]]
    \* lines 150-151
    : i0 \in {ArgMin(MapSeq(x0, LAMBDA a : RAbs(RAdd(a, xmax))))},
      i1 \in {ArgMin(MapSeq(x0, LAMBDA a : RAbs(RSub(a, xmax))))},
      j0 \in {ArgMin(MapSeq(v0, LAMBDA a : RAbs(RSub(a, vmin))))},
      j1 \in {ArgMin(MapSeq(v0, LAMBDA a : RAbs(RSub(a, vmax))))}})
    \* lines 146-149
    : x0 \in {MapSeq(AxisOf(h.NAXIS1, h.CRPIX1, h.CDELT1),
                     LAMBDA a : RMul(RAdd(a, h.CRVAL1), dist))},
      v0 \in {MapSeq(AxisOf(h.NAXIS2, h.CRPIX2, h.CDELT2),
                     LAMBDA a : FreqToVel(RAdd(a, h.CRVAL2), h.RESTFRQ, vsys))}})

\* read_cubefits, lines 68-107 (center = None: cx, cy = 0, 0)
read_cubefits(o, f, dist, vsys, xmax, ymax, vmin, vmax, sigma) ==
    LET h    == f.header
        sig  == IF sigma = None THEN AutoSigma ELSE sigma
        pr0  == IF sigma = None THEN <<"sigma = ...">> ELSE <<>>
        k    == RMul(R(3600), dist)
    IN
    The({
    The({
    LET x    == Slice(x0, i0, i1)
        y    == Slice(y0, j0, j1)
        v    == Slice(v0, k0, k1)
        d    == [c \in 1..Len(v) |-> [j \in 1..Len(y) |->
                    Slice(f.data[k0 + c][j0 + j], i0, i1)]]
        o0   == SetAttr(o, "offpix", <<i0, j0, k0>>)
    IN  IF Len(x) < 2 \/ Len(y) < 2 \/ Len(v) < 2
        THEN [obj |-> o0, raised |-> "IndexError", printed |-> pr0, ret |-> None]
        ELSE
        LET dx   == RSub(x[2], x[1])
            dy   == RSub(y[2], y[1])
            dv   == RSub(v[2], v[1])
            hasb == Has(h, "BMAJ")
        IN  IF hasb /\ (~Has(h, "BMIN") \/ ~Has(h, "BPA"))
            THEN [obj |-> o0, raised |-> "KeyError", printed |-> pr0, ret |-> None]
            ELSE
            LET bmaj == IF hasb THEN RMul(h.BMAJ, k) ELSE dy
                bmin == IF hasb THEN RMul(h.BMIN, k) ELSE RNeg(dx)
                bpa  == IF hasb THEN h.BPA ELSE R(0)
                pr1  == IF hasb THEN pr0 ELSE Append(pr0, "No valid beam in the FITS file.")
                o1   == SetAttr(SetAttr(SetAttr(SetAttr(SetAttr(SetAttr(SetAttr(SetAttr(
                        SetAttr(SetAttr(SetAttr(SetAttr(SetAttr(SetAttr(SetAttr(o0,
                        "x", x), "dx", dx), "y", y), "dy", dy), "v", v), "dv", dv),
                        "data", d), "header", h), "sigma", sig),
                        "bmaj", bmaj), "bmin", bmin), "bpa", bpa),
                        "cubefits", f.name), "dist", dist), "vsys", vsys)
            IN  [obj |-> o1, raised |-> "none", printed |-> pr1,
                 ret |-> [x |-> x, y |-> y, v |-> v, data |-> d, header |-> h,
                          sigma |-> sig]]
    \* lines 87-89
    : i0 \in {ArgMin(MapSeq(x0, LAMBDA a : RAbs(RSub(a, xmax))))},
      i1 \in {ArgMin(MapSeq(x0, LAMBDA a : RAbs(RAdd(a, xmax))))},
      j0 \in {ArgMin(MapSeq(y0, LAMBDA a : RAbs(RAdd(a, ymax))))},
      j1 \in {ArgMin(MapSeq(y0, LAMBDA a : RAbs(RSub(a, ymax))))},
      k0 \in {ArgMin(MapSeq(v0, LAMBDA a : RAbs(RSub(a, vmin))))},
      k1 \in {ArgMin(MapSeq(v0, LAMBDA a : RAbs(RSub(a, vmax))))}})
    \* lines 80-86
    : x0 \in {MapSeq(AxisOf(h.NAXIS1, h.CRPIX1, h.CDELT1), LAMBDA a : RMul(a, k))},
      y0 \in {MapSeq(AxisOf(h.NAXIS2, h.CRPIX2, h.CDELT2), LAMBDA a : RMul(a, k))},
      v0 \in {MapSeq(AxisOf(h.NAXIS3, h.CRPIX3, h.CDELT3),
                     LAMBDA a : FreqToVel(RAdd(a, h.CRVAL3), h.RESTFRQ, vsys))}})

(***************************************************************************)
(* The fit-result table (lines 538-572).  A Python number is <<n, d, t>>:  *)
(* the rational n/d and t = "i" for an int, "f" for a float.  A line of    *)
(* text is a sequence of symbols: " ", "#", "-", ".", the digits, and whole*)
(* words (the labels), which never parse as numbers.                       *)
(***************************************************************************)
PyFloat(x) == <<x[1], x[2], "f">>

PyInt(n) == <<n, 1, "i">>

Val(pn) == <<pn[1], pn[2]>>

DigitChars == <<"0", "1", "2", "3", "4", "5", "6", "7", "8", "9">>

IsDigit(c) == \E k \in 1..10 : DigitChars[k] = c

DigitVal(c) == (CHOOSE k \in 1..10 : DigitChars[k] = c) - 1

RECURSIVE Digits(_)
Digits(n) == IF n < 10 THEN <<DigitChars[n + 1]>>
             ELSE Append(Digits(n \div 10), DigitChars[(n % 10) + 1])

\* the decimal digits of a fraction 0 <= x < 1 with a finite expansion
RECURSIVE FracDigits(_)
FracDigits(x) ==
    LET t == RMul(x, R(10))
        d == t[1] \div t[2]
        r == RSub(t, R(d))
    IN  IF r[1] = 0 THEN <<DigitChars[d + 1]>> ELSE <<DigitChars[d + 1]>> \o FracDigits(r)

\* '%s' % value: str() of an int, and of a float its shortest repr, here for
\* the magnitudes Python prints without an exponent (1e-4 <= |x| < 1e16)
FormatNum(pn) ==
    LET a  == RAbs(Val(pn))
        ip == a[1] \div a[2]
        sg == IF pn[1] < 0 THEN <<"-">> ELSE <<>>
    IN  IF pn[3] = "i" THEN sg \o Digits(ip)
        ELSE sg \o Digits(ip) \o <<".">> \o FracDigits(RSub(a, R(ip)))

RECURSIVE DigitsVal(_)
DigitsVal(ds) == IF ds = <<>> THEN 0
                 ELSE 10 * DigitsVal(SubSeq(ds, 1, Len(ds) - 1)) + DigitVal(ds[Len(ds)])

RECURSIVE Pow10(_)
Pow10(k) == IF k = 0 THEN 1 ELSE 10 * Pow10(k - 1)

\* float(token); genfromtxt stores NaN for a token that is no number
ParseFloat(token) ==
    The({
    LET neg  == tok # <<>> /\ tok[1] = "-"
        body == IF neg THEN Tail(tok) ELSE tok
        dots == {i \in 1..Len(body) : body[i] = "."}
        dot  == IF dots = {} THEN Len(body) + 1 ELSE CHOOSE i \in dots : TRUE
        ip   == SubSeq(body, 1, dot - 1)
        fp   == SubSeq(body, dot + 1, Len(body))
        ok   == /\ Cardinality(dots) <= 1
                /\ Len(ip) + Len(fp) > 0
                /\ \A i \in 1..Len(body) : i \in dots \/ IsDigit(body[i])
        mag  == RAdd(R(DigitsVal(ip)), RNorm(DigitsVal(fp), Pow10(Len(fp))))
    IN  IF ~ok THEN <<0, 0, "f">>
        ELSE PyFloat(IF neg THEN RNeg(mag) ELSE mag)
    : tok \in {token}})

\* ' '.join(tokens)
RECURSIVE JoinTokens(_)
JoinTokens(tokens) ==
    The({IF Len(toks) = 0 THEN <<>>
         ELSE IF Len(toks) = 1 THEN toks[1]
         ELSE toks[1] \o <<" ">> \o JoinTokens(Tail(toks)) : toks \in {tokens}})

\* line.split(): the maximal runs of non-blank symbols, in order
SplitLine(text) ==
    The({LET starts == {i \in 1..Len(line) :
                           line[i] # " " /\ (i = 1 \/ line[i - 1] = " ")}
             ends   == {i \in 1..Len(line) :
                           line[i] # " " /\ (i = Len(line) \/ line[i + 1] = " ")}
             Nth(S, t) == CHOOSE e \in S : Cardinality({u \in S : u < e}) = t - 1
         IN  [t \in 1..Cardinality(starts) |-> SubSeq(line, Nth(starts, t), Nth(ends, t))]
         : line \in {text}})

\* the part of a line before its first '#'
StripComment(text) ==
    The({LET hs == {i \in 1..Len(line) : line[i] = "#"}
         IN  IF hs = {} THEN line
             ELSE SubSeq(line, 1, (CHOOSE i \in hs : \A j \in hs : i <= j) - 1)
         : line \in {text}})

FitLabels == <<<<"Mstar">>, <<"Rc">>, <<"alpha">>, <<"fflux">>,
               <<"log_ftau">>, <<"log_frho">>, <<"sig_mdl">>>>

FitHeader == <<"#", " ", "popt", " ", "plow", " ", "pmid", " ", "phigh">>

FitresNoTranspose(labels, popt, plow, pmid, phigh) ==
    LET cols == <<labels, MapSeq(popt, FormatNum), MapSeq(plow, FormatNum),
                  MapSeq(pmid, FormatNum), MapSeq(phigh, FormatNum)>>
    IN  [c \in 1..5 |-> JoinTokens(cols[c])]

\* np.savetxt(f, np.array([labels, popt, plow, pmid, phigh]).T, fmt = '%s'):
\* one line per parameter
FitresRows(labels, popt, plow, pmid, phigh) ==
    [i \in 1..Len(labels) |->
        JoinTokens(<<labels[i], FormatNum(popt[i]), FormatNum(plow[i]),
                     FormatNum(pmid[i]), FormatNum(phigh[i])>>)]

\* writeout_fitres, lines 546-559
writeout_fitres(o, fs, fout) ==
    IF Has(o, "popt")
    THEN LET name == Append(fout, ".txt")
         IN  IF ~(Has(o, "plow") /\ Has(o, "pmid") /\ Has(o, "phigh"))
             THEN \* the file is open and the header written when self.plow fails
                  [files |-> (name :> <<FitHeader>>) @@ fs, raised |-> "AttributeError",
                   printed |-> <<>>, ret |-> None]
             ELSE IF \E a \in {o.popt, o.plow, o.pmid, o.phigh} : Len(a) # Len(FitLabels)
             THEN [files |-> (name :> <<FitHeader>>) @@ fs, raised |-> "ValueError",
                   printed |-> <<>>, ret |-> None]
             ELSE [files |-> (name :> (<<FitHeader>> \o
                                FitresRows(FitLabels, o.popt, o.plow, o.pmid, o.phigh))) @@ fs,
                   raised |-> "none", printed |-> <<>>, ret |-> None]
    ELSE [files |-> fs, raised |-> "none",
          printed |-> <<"ERROR writeout_fitres: No optimized parameters are found.",
                        "ERROR writeout_fitres: Run fitting first.">>,
          ret |-> PyInt(0)]

FitresUsecols == <<1, 2, 3, 4>>

\* np.genfromtxt(f, dtype = float, comments = '#', unpack = True, usecols = ...):
\* one array per column of usecols (columns counted from 0)
GenFromTxt(lines, usecols) ==
    The({[c \in 1..Len(usecols) |->
             [i \in 1..Len(rows) |-> ParseFloat(rows[i][usecols[c] + 1])]]
         : rows \in {SelectSeq(MapSeq(lines, LAMBDA l : SplitLine(StripComment(l))),
                               LAMBDA t : t # <<>>)}})

\* read_fitres that keeps the first column only
read_fitresPoptOnly(o, fs, f) ==
    IF ~Has(fs, f)
    THEN [obj |-> o, raised |-> "FileNotFoundError"]
    ELSE The({[obj |-> SetAttr(o, "popt", cols[1]), raised |-> "none"]
              : cols \in {GenFromTxt(fs[f], FitresUsecols)}})

\* read_fitres, lines 570-572
read_fitres(o, fs, f) ==
    IF ~Has(fs, f)
    THEN [obj |-> o, raised |-> "FileNotFoundError"]
    ELSE The({[obj |-> SetAttr(SetAttr(SetAttr(SetAttr(o, "popt", cols[1]),
                        "plow", cols[2]), "pmid", cols[3]), "phigh", cols[4]),
               raised |-> "none"] : cols \in {GenFromTxt(fs[f], FitresUsecols)}})


(***************************************************************************)
(* put_PV and sampling (lines 194-217)                                     *)
(***************************************************************************)
\* int(x): truncation toward zero
PyInt0(x) == IF x[1] >= 0 THEN x[1] \div x[2] ELSE -((-x[1]) \div x[2])

\* a[start::step] for a step other than 0, with Python's rules for a negative
\* start (counted from the end) and a negative step (walking backwards)
Stride(a, start, step) ==
    LET n  == Len(a)
        s0 == IF step > 0
              THEN (IF start < 0 THEN (IF start + n < 0 THEN 0 ELSE start + n)
                    ELSE IF start > n THEN n ELSE start)
              ELSE (IF start < 0 THEN (IF start + n < 0 THEN -1 ELSE start + n)
                    ELSE IF start > n - 1 THEN n - 1 ELSE start)
        cnt == IF step > 0
               THEN (IF s0 >= n THEN 0 ELSE (n - s0 + step - 1) \div step)
               ELSE (IF s0 < 0 THEN 0 ELSE s0 \div (-step) + 1)
    IN  [k \in 1..cnt |-> a[s0 + (k - 1) * step + 1]]

\* sampling(steps), lines 207-217
sampling(o, steps) ==
    IF \E k \in {"bmin", "dx", "data", "v", "x"} : ~Has(o, k)
    THEN [obj |-> o, raised |-> "AttributeError"]
    ELSE
    The({
    LET d  == MapSeq(Stride(o.data, ys \div 2, ys), LAMBDA row : Stride(row, xs \div 2, xs))
        v  == Stride(o.v, ys \div 2, ys)
        x  == Stride(o.x, xs \div 2, xs)
        o1 == SetAttr(SetAttr(SetAttr(o, "data", d), "v", v), "x", x)
    IN  IF Len(x) < 2 THEN [obj |-> o1, raised |-> "IndexError"]
        ELSE IF Len(v) < 2
             THEN [obj |-> SetAttr(o1, "dx", RSub(x[2], x[1])), raised |-> "IndexError"]
             ELSE [obj |-> SetAttr(SetAttr(o1, "dx", RSub(x[2], x[1])),
                                   "dv", RSub(v[2], v[1])),
                   raised |-> "none"]
    : xs \in {LET xs0 == PyInt0(RDiv(RDiv(o.bmin, R(steps[1])), o.dx))
              IN  IF xs0 = 0 THEN 1 ELSE xs0},
      ys \in {LET ys0 == PyInt0(RDiv(R(1), R(steps[2])))
              IN  IF ys0 = 0 THEN 1 ELSE ys0}})

\* read_pvfits then sampling then self.<attr> = self.data, for one of the two files
PutOne(o, f, attr, dist, vsys, rmax, vmin, vmax, sigma, dNsampling) ==
    The({IF r.raised # "none"
         THEN [obj |-> r.obj, raised |-> r.raised, printed |-> r.printed]
         ELSE The({IF q.raised # "none"
                   THEN [obj |-> q.obj, raised |-> q.raised, printed |-> r.printed]
                   ELSE [obj |-> SetAttr(q.obj, attr, q.obj.data), raised |-> "none",
                         printed |-> r.printed]
                   : q \in {IF dNsampling = None THEN [obj |-> r.obj, raised |-> "none"]
                            ELSE sampling(r.obj, dNsampling)}})
         : r \in {read_pvfits(o, f, dist, vsys, rmax, vmin, vmax, sigma)}})

\* put_PV, lines 198-203
put_PV(o, fmaj, fmin, dist, vsys, rmax, vmin, vmax, sigma, dNsampling) ==
    The({IF a.raised # "none" THEN a
         ELSE The({[obj |-> b.obj, raised |-> b.raised, printed |-> a.printed \o b.printed]
                   : b \in {PutOne(a.obj, fmin, "dpvminor", dist, vsys, rmax, vmin, vmax,
                                   sigma, dNsampling)}})
         : a \in {PutOne(o, fmaj, "dpvmajor", dist, vsys, rmax, vmin, vmax, sigma,
                         dNsampling)}})

(***************************************************************************)
(* fit_mockpvd, the part that acts on the object (lines 391-441 read its   *)
(* attributes, 455-518 assemble the result, 528 writes the table).  The    *)
(* sampler (emcee_corner) is an outside collaborator: what it returns is   *)
(* an input of the model.                                                  *)
(***************************************************************************)
ParamNames == <<"Mstar", "Rc", "alphainfall", "fflux", "log_ftau", "log_frho", "sig_mdl">>

\* a dict is a sequence of <<key, value>> in insertion order
DictKeys(d) == {d[i][1] : i \in 1..Len(d)}

DictSet(dict, k, v) ==
    The({IF k \in DictKeys(d)
         THEN [i \in 1..Len(d) |-> IF d[i][1] = k THEN <<k, v>> ELSE d[i]]
         ELSE Append(d, <<k, v>>) : d \in {dict}})

\* d.update(u)
RECURSIVE DictUpdate(_, _)
DictUpdate(d, other) ==
    The({IF u = <<>> THEN d ELSE DictUpdate(DictSet(d, Head(u)[1], Head(u)[2]), Tail(u))
         : u \in {other}})

\* lines 456-460
p_fixed_of(fixed_params) ==
    The({[i \in 1..Len(d) |-> d[i][2]]
         : d \in {DictUpdate([i \in 1..Len(ParamNames) |-> <<ParamNames[i], None>>],
                             fixed_params)}})

\* the number of None entries among the first i
FreeRank(pf, i) == Cardinality({j \in 1..i : pf[j] = None})

\* every free position given the first entry of p
FillFreeFirst(pf, p) == [i \in 1..Len(pf) |-> IF pf[i] = None THEN p[1] ELSE pf[i]]

\* q = p_fixed.copy(); q[p_fixed == None] = p
FillFree(pf, p) == [i \in 1..Len(pf) |-> IF pf[i] = None THEN p[FreeRank(pf, i)] ELSE pf[i]]

FitAttrsRead == {"dpvmajor", "dpvminor", "bmaj", "bmin", "dx", "x", "v", "sigma", "beam"}

\* fit_mockpvd with the sampler's answer mcmc = <<popt, plow, pmid, phigh>>
\* (over the free parameters) and the table written to filename + '.popt'.
\* The sampler, when run, is given plim of ndim rows and evaluates lnprob on
\* vectors of that length, here on its best one: q is what lnprob hands to
\* the model for it.
fit_mockpvd(o, fs, fixed_params, mcmc, filename) ==
    IF \E k \in FitAttrsRead : ~Has(o, k)
    THEN [obj |-> o, files |-> fs, raised |-> "AttributeError",
          sampled |-> 0, ndim |-> None, q |-> None]
    ELSE
    The({
    LET free == \E i \in 1..Len(pf) : pf[i] = None
        o1   == SetAttr(SetAttr(SetAttr(SetAttr(o,
                "popt",  IF free THEN FillFree(pf, mcmc[1]) ELSE pf),
                "plow",  IF free THEN FillFree(pf, mcmc[2]) ELSE pf),
                "pmid",  IF free THEN FillFree(pf, mcmc[3]) ELSE pf),
                "phigh", IF free THEN FillFree(pf, mcmc[4]) ELSE pf)
    IN  The({[obj |-> o2, files |-> w.files, raised |-> w.raised,
               sampled |-> IF free THEN 1 ELSE 0,
               ndim |-> IF free THEN FreeRank(pf, Len(pf)) ELSE None,
               q |-> IF free THEN FillFree(pf, mcmc[1]) ELSE None]
             : w \in {writeout_fitres(o1, fs, Append(filename, ".popt"))}, o2 \in {o1}})
    : pf \in {p_fixed_of(fixed_params)}})


(***************************************************************************)
(* The inputs of the PVSilhouette specification.                           *)
(***************************************************************************)
FullBeam == [BMAJ |-> <<1, 1200>>, BMIN |-> <<1, 1800>>, BPA |-> R(30)]

NoBeam == <<>>

\* a header cut down to BMIN, as some imaging pipelines leave it
OnlyBmin == [BMIN |-> <<1, 1800>>]

\* a PV image: offsets -2..2 arcsec at 1 arcsec/pixel, frequencies falling
\* from 101 about the rest frequency 100 (velocities -3, 0, 3, 6 km/s)
PvFile(nm, cards) ==
    [name |-> nm,
     header |-> cards @@
         [NAXIS1 |-> 5, CRPIX1 |-> R(3), CDELT1 |-> R(1), CRVAL1 |-> R(0),
          NAXIS2 |-> 4, CRPIX2 |-> R(2), CDELT2 |-> R(-1), CRVAL2 |-> R(100),
          RESTFRQ |-> R(100)],
     data |-> [j \in 1..4 |-> [i \in 1..5 |-> (i * j) % 3]]]

PvFiles == {PvFile("pv.fits", FullBeam), PvFile("pv_nobeam.fits", NoBeam),
            PvFile("pv_bmin.fits", OnlyBmin)}

\* a PV image of the same channels cut over fewer offsets, -1..1 arcsec
NarrowPvFile ==
    [name |-> "pv_narrow.fits",
     header |-> FullBeam @@
         [NAXIS1 |-> 3, CRPIX1 |-> R(2), CDELT1 |-> R(1), CRVAL1 |-> R(0),
          NAXIS2 |-> 4, CRPIX2 |-> R(2), CDELT2 |-> R(-1), CRVAL2 |-> R(100),
          RESTFRQ |-> R(100)],
     data |-> [j \in 1..4 |-> [i \in 1..3 |-> (i * j) % 3]]]

\* an image cube: R.A. offsets falling, Dec. offsets and velocities rising
CubeFile(nm, cards) ==
    [name |-> nm,
     header |-> cards @@
         [NAXIS1 |-> 3, CRPIX1 |-> R(2), CDELT1 |-> <<-1, 3600>>,
          NAXIS2 |-> 3, CRPIX2 |-> R(2), CDELT2 |-> <<1, 3600>>,
          NAXIS3 |-> 2, CRPIX3 |-> R(1), CDELT3 |-> R(-1), CRVAL3 |-> R(100),
          RESTFRQ |-> R(100)],
     data |-> [k \in 1..2 |-> [j \in 1..3 |-> [i \in 1..3 |-> (i + j + k) % 3]]]]

CubeFiles == {CubeFile("cube.fits", FullBeam), CubeFile("cube_nobeam.fits", NoBeam)}

\* the (major, minor, dNsampling) arguments of put_PV
PutPVArgs ==
    {<<PvFile("pv.fits", FullBeam), PvFile("pv.fits", FullBeam), <<1, 1>>>>,
     <<PvFile("pv.fits", FullBeam), PvFile("pv_bmin.fits", OnlyBmin), None>>,
     <<PvFile("pv.fits", FullBeam), NarrowPvFile, None>>}

\* fixed_params dicts: none fixed, two fixed (given out of canonical order), all fixed
FixedParamChoices ==
    {<<>>,
     <<<<"Rc", PyFloat(<<201, 2>>)>>, <<"Mstar", PyInt(1)>>>>,
     <<<<"sig_mdl", PyFloat(<<1, 2>>)>>, <<"Rc", None>>, <<"alphainfall", PyInt(0)>>>>,
     [i \in 1..7 |-> <<ParamNames[8 - i], PyFloat(RNorm(-(8 - i), 4))>>]}

\* what the sampler may return over n free parameters: entry i of the best
\* vector is b + i/4, with the quantiles below and above it
McmcChoices(n) ==
    {<<[i \in 1..n |-> PyFloat(RAdd(R(b), <<i, 4>>))],
       [i \in 1..n |-> PyFloat(RAdd(R(b - 1), <<i, 4>>))],
       [i \in 1..n |-> PyFloat(RAdd(R(b), <<i, 8>>))],
       [i \in 1..n |-> PyFloat(RAdd(R(b + 1), <<i, 4>>))]>> : b \in {-1, 12}}

FitName == <<"PVsilhouette">>

\* the default fout of writeout_fitres, which is also where fit_mockpvd writes
OutName == <<"PVsilhouette", ".popt">>

ReadNames == {Append(OutName, ".txt"), <<"other", ".txt">>}

\* the object is followed over its first MaxCalls method calls
MaxCalls == 3

\* the table an earlier session's fit left on disk
EarlierResult ==
    [popt  |-> [i \in 1..Len(ParamNames) |-> PyFloat(RNorm(2 * i + 1, 2))],
     plow  |-> [i \in 1..Len(ParamNames) |-> PyFloat(R(i))],
     pmid  |-> [i \in 1..Len(ParamNames) |-> PyFloat(RNorm(2 * i + 1, 2))],
     phigh |-> [i \in 1..Len(ParamNames) |-> PyFloat(R(i + 1))]]

EarlierFiles == writeout_fitres(EarlierResult, <<>>, OutName).files

\* a new object; the disk is empty or holds the earlier table
FitsInit ==
    /\ obj = <<>> /\ files \in {<<>>, EarlierFiles} /\ lastcall = [op |-> "PVSilhouette"]
    /\ raised = "none" /\ printed = <<>> /\ ncalls = 0

(***************************************************************************)
(* The PVSilhouette methods, one action each.                              *)
(***************************************************************************)
ReadCubefits ==
    /\ raised # "idle" /\ ncalls < MaxCalls
    /\ \E f \in CubeFiles :
          \E r \in {read_cubefits(obj, f, R(1), R(0), R(1), R(1), R(0), R(3), None)} :
              /\ obj' = r.obj /\ raised' = r.raised /\ printed' = r.printed
              /\ lastcall' = [op |-> "read_cubefits", header |-> f.header, ret |-> r.ret]
    /\ ncalls' = ncalls + 1
    /\ UNCHANGED files
    /\ UNCHANGED notFits

ReadPvfits ==
    /\ raised # "idle" /\ ncalls < MaxCalls
    /\ \E f \in PvFiles :
          \E r \in {read_pvfits(obj, f, R(1), R(0), R(2), R(-3), R(6), <<1, 10>>)} :
              /\ obj' = r.obj /\ raised' = r.raised /\ printed' = r.printed
              /\ lastcall' = [op |-> "read_pvfits", header |-> f.header, ret |-> r.ret]
    /\ ncalls' = ncalls + 1
    /\ UNCHANGED files
    /\ UNCHANGED notFits

PutPV ==
    /\ raised # "idle" /\ ncalls < MaxCalls
    /\ \E a \in PutPVArgs :
          \E r \in {put_PV(obj, a[1], a[2], R(1), R(0), R(2), R(-3), R(6), <<1, 10>>, a[3])} :
              /\ obj' = r.obj /\ raised' = r.raised /\ printed' = r.printed
              /\ lastcall' = [op |-> "put_PV", header |-> a[2].header, ret |-> None]
    /\ ncalls' = ncalls + 1
    /\ UNCHANGED files
    /\ UNCHANGED notFits

FitMockpvd ==
    /\ raised # "idle" /\ ncalls < MaxCalls
    /\ \E fp \in FixedParamChoices :
          \E mcmc \in McmcChoices(FreeRank(p_fixed_of(fp), Len(p_fixed_of(fp)))) :
             \E r \in {fit_mockpvd(obj, files, fp, mcmc, FitName)} :
                 /\ obj' = r.obj /\ files' = r.files /\ raised' = r.raised
                 /\ printed' = <<>>
                 /\ lastcall' = [op |-> "fit_mockpvd", fixed_params |-> fp, mcmc |-> mcmc,
                                 sampled |-> r.sampled, ndim |-> r.ndim, q |-> r.q,
                                 ret |-> None]
    /\ ncalls' = ncalls + 1
    /\ UNCHANGED notFits

WriteoutFitres ==
    /\ raised # "idle" /\ ncalls < MaxCalls
    /\ \E r \in {writeout_fitres(obj, files, OutName)} :
           /\ files' = r.files /\ raised' = r.raised /\ printed' = r.printed
           /\ lastcall' = [op |-> "writeout_fitres", fout |-> OutName, ret |-> r.ret]
    /\ ncalls' = ncalls + 1
    /\ UNCHANGED obj
    /\ UNCHANGED notFits

ReadFitres ==
    /\ raised # "idle" /\ ncalls < MaxCalls
    /\ \E f \in ReadNames :
          \E r \in {read_fitres(obj, files, f)} :
              /\ obj' = r.obj /\ raised' = r.raised
              /\ lastcall' = [op |-> "read_fitres", f |-> f, ret |-> None]
    /\ printed' = <<>>
    /\ ncalls' = ncalls + 1
    /\ UNCHANGED files
    /\ UNCHANGED notFits

InitFits == FitsInit /\ VelIdle /\ GridIdle /\ MockIdle

NextFits ==
    \/ ReadCubefits \/ ReadPvfits \/ PutPV
    \/ FitMockpvd \/ WriteoutFitres \/ ReadFitres

SpecFits == InitFits /\ [][NextFits]_vars

(***************************************************************************)
(* Properties of PVSilhouette.                                             *)
(***************************************************************************)
NoBeamWarning == "No valid beam in the FITS file."

InSeq(e, q) == \E i \in 1..Len(q) : q[i] = e

\* C7: a FITS header without BMAJ is not fatal in either reader: after
\* read_cubefits or read_pvfits of such a file the call has returned normally,
\* the warning has been printed, and bmaj and bmin hold placeholder values.
C7_NoBeamNonFatal ==
    (lastcall.op \in {"read_cubefits", "read_pvfits"} /\ ~Has(lastcall.header, "BMAJ"))
        => /\ raised = "none"
           /\ InSeq(NoBeamWarning, printed)
           /\ Has(obj, "bmaj") /\ Has(obj, "bmin")

FitArrays == <<"popt", "plow", "pmid", "phigh">>

Vals(a) == [i \in 1..Len(a) |-> Val(a[i])]

\* what read_fitres makes of the file writeout_fitres(fout) writes for object o
ReadBack(o, fs, fout) ==
    The({read_fitres(<<>>, w.files, Append(fout, ".txt")) : w \in {writeout_fitres(o, fs, fout)}})

\* C8: writeout_fitres followed by read_fitres of the file it wrote gives back
\* the values of popt, plow, pmid and phigh, seven each and in order: the label
\* column and the header line are skipped.  Stated for every object that holds
\* the four arrays, and for the file on disk once writeout_fitres has run.
C8_RoundTrip ==
    (\A k \in 1..4 : Has(obj, FitArrays[k]))
        => /\ \E r \in {ReadBack(obj, files, OutName)} :
                /\ r.raised = "none"
                /\ \A k \in 1..4 :
                      /\ Len(r.obj[FitArrays[k]]) = Len(FitLabels)
                      /\ Vals(r.obj[FitArrays[k]]) = Vals(obj[FitArrays[k]])
           /\ (lastcall.op = "writeout_fitres" /\ raised = "none")
                => \E r \in {read_fitres(<<>>, files, Append(lastcall.fout, ".txt"))} :
                      \A k \in 1..4 : Vals(r.obj[FitArrays[k]]) = Vals(obj[FitArrays[k]])

\* writeout_fitres has just written a table holding an int, negative and
\* fractional values
C8_Witness ==
    /\ lastcall.op = "writeout_fitres" /\ raised = "none" /\ lastcall.ret = None
    /\ Has(files, Append(OutName, ".txt"))
    /\ Has(obj, "popt") /\ Has(obj, "plow")
    /\ obj.popt[1] = PyInt(1)
    /\ obj.popt[2] = PyFloat(<<201, 2>>)
    /\ obj.plow[3] = PyFloat(<<-7, 4>>)
    /\ obj.popt # obj.plow /\ obj.pmid # obj.phigh

(***************************************************************************)
(* Nested3DGrid.  The module pvfitting.grid is not among the sources; the  *)
(* grid is modelled from its contract: level 1 spans the field of view,    *)
(* level l + 1 is a box of whole cells of level l, each cell split nsub    *)
(* ways along every axis.  A box is <<x0, x1, y0, y1, z0, z1>>, the first  *)
(* and last parent cell it covers on each axis, counted from 1.            *)
(***************************************************************************)
\* sum of a sequence of numbers
RECURSIVE RSumSeq(_)
RSumSeq(s) ==
    The({IF q = <<>> THEN R(0) ELSE RAdd(Head(q), RSumSeq(Tail(q))) : q \in {s}})

\* the cell centres of the n-fold split of parent cells i0..i1
ChildAxis(px, i0, i1, n) ==
    [m \in 1..((i1 - i0 + 1) * n) |->
        RAdd(px[i0 + (m - 1) \div n],
             RMul(RNorm(2 * ((m - 1) % n) + 1 - n, 2 * n), RSub(px[2], px[1])))]

BoxFits(lev, b) ==
    /\ 1 <= b[1] /\ b[1] <= b[2] /\ b[2] <= Len(lev.x)
    /\ 1 <= b[3] /\ b[3] <= b[4] /\ b[4] <= Len(lev.y)
    /\ 1 <= b[5] /\ b[5] <= b[6] /\ b[6] <= Len(lev.z)

ChildLevel(lev, b, n) ==
    [x |-> ChildAxis(lev.x, b[1], b[2], n), y |-> ChildAxis(lev.y, b[3], b[4], n),
     z |-> ChildAxis(lev.z, b[5], b[6], n), box |-> b, nsub |-> n]

RECURSIVE NestLevels(_, _, _)
NestLevels(levels, boxes, nsub) ==
    The({IF bs = <<>> THEN [levels |-> ls, raised |-> "none"]
         ELSE IF ~BoxFits(ls[Len(ls)], Head(bs)) \/ Head(nsub) < 1
              THEN [levels |-> ls, raised |-> "ValueError"]
              ELSE NestLevels(Append(ls, ChildLevel(ls[Len(ls)], Head(bs), Head(nsub))),
                              Tail(bs), Tail(nsub))
         : ls \in {levels}, bs \in {boxes}})

\* Nested3DGrid(x, y, z, xlim, ylim, zlim, nsub): with no boxes, one level
Nested3DGrid(x, y, z, boxes, nsub) ==
    IF boxes = None
    THEN [levels |-> <<[x |-> x, y |-> y, z |-> z, box |-> None, nsub |-> 1]>>,
          raised |-> "none"]
    ELSE IF Len(boxes) # Len(nsub)
         THEN [levels |-> <<>>, raised |-> "ValueError"]
         ELSE NestLevels(<<[x |-> x, y |-> y, z |-> z, box |-> None, nsub |-> 1]>>,
                         boxes, nsub)

\* a field over the samples of every level: F(l, X, Y, Z) at level l
FieldOn(levels, F(_, _, _, _)) ==
    [l \in 1..Len(levels) |->
        [i \in 1..Len(levels[l].x) |-> [j \in 1..Len(levels[l].y) |->
            [k \in 1..Len(levels[l].z) |-> F(l, levels[l].x[i], levels[l].y[j], levels[l].z[k])]]]]

\* the integral along z over the whole of column (i, j) of level l, the cells
\* under a finer level counted as well
OwnColumnWhole(levels, f, l, i, j) ==
    RMul(RSub(levels[l].z[2], levels[l].z[1]), RSumSeq(f[l][i][j]))

\* the integral along z over the part of column (i, j) of level l that no finer
\* level covers
OwnColumn(levels, f, l, i, j) ==
    LET lev  == levels[l]
        dz   == RSub(lev.z[2], lev.z[1])
        b    == IF l < Len(levels) THEN levels[l + 1].box ELSE None
        in   == b # None /\ b[1] <= i /\ i <= b[2] /\ b[3] <= j /\ j <= b[4]
        own  == SelectSeq([k \in 1..Len(lev.z) |->
                              IF in /\ b[5] <= k /\ k <= b[6] THEN None ELSE f[l][i][j][k]],
                          LAMBDA e : e # None)
    IN  RMul(dz, RSumSeq(own))

\* the map at level l's transverse resolution of the integral along z, levels
\* l and finer composited: a column under the finer level's box takes, over
\* the box, the mean of the finer columns that tile it
RECURSIVE ColumnMap(_, _, _)
ColumnMap(levels, f, l) ==
    IF l = Len(levels)
    THEN [i \in 1..Len(levels[l].x) |-> [j \in 1..Len(levels[l].y) |->
             OwnColumn(levels, f, l, i, j)]]
    ELSE The({[i \in 1..Len(levels[l].x) |-> [j \in 1..Len(levels[l].y) |->
                  IF b[1] <= i /\ i <= b[2] /\ b[3] <= j /\ j <= b[4]
                  THEN RAdd(OwnColumn(levels, f, l, i, j),
                            RDiv(RSumSeq([t \in 1..(n * n) |->
                                     fine[(i - b[1]) * n + 1 + (t - 1) \div n]
                                         [(j - b[3]) * n + 1 + ((t - 1) % n)]]),
                                 R(n * n)))
                  ELSE OwnColumn(levels, f, l, i, j)]]
              : fine \in {ColumnMap(levels, f, l + 1)},
                b \in {levels[l + 1].box}, n \in {levels[l + 1].nsub}})

\* grid.integrate_along(field, axis = 'z'): finest level first, coarsest last
integrate_along(levels, f) == ColumnMap(levels, f, 1)

(***************************************************************************)
(* The grids and fields of the grid specification.                         *)
(***************************************************************************)
GridX == <<R(-1), R(0), R(1)>>

GridZ == <<<<-3, 2>>, <<-1, 2>>, <<1, 2>>, <<3, 2>>>>

\* boxes and factors: none, five of two levels, five of three, three malformed
GridConfigs ==
    {<<None, <<1>>>>,
     <<<<<<2, 2, 2, 2, 2, 3>>>>, <<2>>>>,
     <<<<<<2, 2, 2, 2, 1, 4>>>>, <<2>>>>,
     <<<<<<1, 2, 2, 3, 3, 3>>>>, <<3>>>>,
     <<<<<<1, 3, 1, 3, 1, 4>>>>, <<2>>>>,
     <<<<<<2, 3, 1, 1, 1, 1>>>>, <<2>>>>,
     <<<<<<2, 2, 2, 2, 2, 3>>, <<1, 2, 1, 2, 2, 3>>>>, <<2, 2>>>>,
     <<<<<<2, 2, 2, 2, 1, 4>>, <<2, 2, 1, 1, 1, 8>>>>, <<2, 2>>>>,
     <<<<<<1, 2, 2, 3, 3, 3>>, <<3, 4, 2, 2, 1, 1>>>>, <<3, 2>>>>,
     <<<<<<1, 3, 1, 3, 1, 4>>, <<2, 5, 2, 5, 3, 6>>>>, <<2, 2>>>>,
     <<<<<<2, 3, 1, 1, 1, 1>>, <<1, 1, 1, 2, 1, 2>>>>, <<2, 3>>>>,
     <<<<<<2, 2, 2, 2, 2, 5>>>>, <<2>>>>,
     <<<<<<2, 2, 2, 2, 2, 3>>, <<1, 3, 1, 2, 1, 2>>>>, <<2, 2>>>>,
     <<<<<<2, 2, 2, 2, 2, 3>>>>, <<2, 2>>>>}

\* constant fields, the indicator of one level, and a field that varies along z
GridFields ==
    {[kind |-> "const", c |-> c] : c \in {R(1), R(2), R(3), <<3, 2>>, <<-1, 2>>}}
        \cup {[kind |-> "level", c |-> R(l)] : l \in 1..3}
        \cup {[kind |-> "z", c |-> R(1)]}

FieldValue(fd, l, X, Y, Z) ==
    CASE fd.kind = "const" -> fd.c
      [] fd.kind = "level" -> IF R(l) = fd.c THEN R(1) ELSE R(0)
      [] fd.kind = "z"     -> RAdd(Z, R(2))

NewGrid ==
    /\ graised # "idle"
    /\ \E cfg \in GridConfigs :
          \E g \in {Nested3DGrid(GridX, GridX, GridZ, cfg[1], cfg[2])} :
              /\ grid' = g.levels
              /\ graised' = g.raised
    /\ gfield' = <<>>
    /\ gout' = <<>>
    /\ UNCHANGED notGrid

IntegrateAlong ==
    /\ graised = "none" /\ grid # <<>>
    /\ \E fd \in GridFields :
          \E f \in {FieldOn(grid, LAMBDA l, X, Y, Z : FieldValue(fd, l, X, Y, Z))} :
              /\ gfield' = [desc |-> fd, values |-> f]
              /\ gout' = integrate_along(grid, f)
    /\ UNCHANGED <<grid, graised>>
    /\ UNCHANGED notGrid

GridInit == grid = <<>> /\ gfield = <<>> /\ gout = <<>> /\ graised = "none"

InitGrid == GridInit /\ VelIdle /\ FitsIdle /\ MockIdle

NextGrid == NewGrid \/ IntegrateAlong

SpecGrid == InitGrid /\ [][NextGrid]_vars

\* the length of the line of sight through the coarsest level
PathLength(levels) ==
    RMul(R(Len(levels[1].z)), RSub(levels[1].z[2], levels[1].z[1]))

\* C6: integrate_along counts no stretch of the line of sight twice: for a
\* field equal to a constant c at every level of a grid of two or three levels,
\* every column of the map it returns is c times the length of the path.
C6_ConstantField ==
    (gout # <<>> /\ gfield.desc.kind = "const" /\ Len(grid) >= 2)
        => \A i \in 1..Len(gout) : \A j \in 1..Len(gout[i]) :
              gout[i][j] = RMul(gfield.desc.c, PathLength(grid))

\* a constant field has been integrated on a grid of three levels, the finest
\* covering only part of the path
C6_Witness ==
    /\ gout # <<>> /\ gfield.desc.kind = "const" /\ gfield.desc.c = <<3, 2>>
    /\ Len(grid) = 3
    /\ grid[3].box[5] > 1
    /\ gout[2][2] = R(6)

(***************************************************************************)
(* MockPVD (mockpvd.py).  How the model holds the quantities of the code:  *)
(*  - a position angle is a whole number of degrees, a multiple of 90, on  *)
(*    which the rotation is exact;                                         *)
(*  - a Gaussian width enters the code only through exp(-d^2 / w^2): a     *)
(*    line width w is held as lam = w^2 ln 2, a beam axis b as             *)
(*    kap = 2.35^2 / (2 ln 2 b^2), so that exp(-d^2 / w^2) = 2^(-d^2/lam)  *)
(*    and exp(-0.5 (d / (b/2.35))^2) = 2^(-kap d^2), rational numbers on   *)
(*    the inputs used;                                                     *)
(*  - a radius is held by its square;                                      *)
(*  - an intensity 1 - exp(-t) is held as the formal term on t, and a      *)
(*    weighted sum of intensities as the list of its <<weight, t>> terms.  *)
(* The module pvfitting.precalculation is not among the sources: the       *)
(* values it keeps (vedge, gauss_v, gauss_xy) are written by mockpvd.py,   *)
(* its functions are modelled from their contract.                         *)
(***************************************************************************)
\* 2^(-x) for a natural number x
Exp2Neg(x) == CASE x[2] = 1 /\ x[1] >= 0 -> <<1, 2^(x[1])>>

LinNaN == [nan |-> TRUE, terms |-> <<>>]

\* the sum over i of cs[i][1] * (1 - exp(-cs[i][2])), like terms merged, terms
\* that are zero dropped, terms in increasing t; NaN if any term is
LinOf(cs) ==
    The({IF \E i \in 1..Len(c) : IsNaN(c[i][1]) \/ IsNaN(c[i][2])
         THEN LinNaN
         ELSE LET X == {c[i][2] : i \in {i \in 1..Len(c) : c[i][1] # R(0)}} \ {R(0)}
                  W(x) == RSumSeq(MapSeq(SelectSeq(c, LAMBDA t : t[2] = x), LAMBDA t : t[1]))
                  Nth(r) == CHOOSE x \in X : Cardinality({y \in X : RLt(y, x)}) = r - 1
              IN  [nan |-> FALSE, terms |-> [r \in 1..Cardinality(X) |-> <<W(Nth(r)), Nth(r)>>]]
         : c \in {cs}})

\* 1. - np.exp(-t)
Sat(t) == LinOf(<<<<R(1), t>>>>)

RECURSIVE FlatSeq(_)
FlatSeq(ss) == The({IF q = <<>> THEN <<>> ELSE Head(q) \o FlatSeq(Tail(q)) : q \in {ss}})

\* np.nanmean of a sequence of intensities
LinMean(ls) ==
    The({IF good = <<>> THEN LinNaN
         ELSE LinOf(FlatSeq(MapSeq(good, LAMBDA e :
                  MapSeq(e.terms, LAMBDA t : <<RDiv(t[1], R(Len(good))), t[2]>>))))
         : good \in {SelectSeq(ls, LAMBDA e : ~e.nan)}})

\* np.nanmax over a set of numbers
NanMax(S) ==
    The({IF V = {} THEN NaN ELSE CHOOSE m \in V : \A y \in V : RLe(y, m) : V \in {S \ {NaN}}})

\* the values of a per-level field
ValuesOf(f) ==
    UNION {UNION {UNION {{f[l][i][j][k] : k \in 1..Len(f[l][i][j])}
        : j \in 1..Len(f[l][i])} : i \in 1..Len(f[l])} : l \in 1..Len(f)}

Map4(f, Op(_)) ==
    The({[l \in 1..Len(a) |-> [i \in 1..Len(a[l]) |-> [j \in 1..Len(a[l][i]) |->
             [k \in 1..Len(a[l][i][j]) |-> Op(a[l][i][j][k])]]]] : a \in {f}})

Zip4(f, g, Op(_, _)) ==
    The({[l \in 1..Len(a) |-> [i \in 1..Len(a[l]) |-> [j \in 1..Len(a[l][i]) |->
             [k \in 1..Len(a[l][i][j]) |-> Op(a[l][i][j][k], b[l][i][j][k])]]]]
         : a \in {f}, b \in {g}})

(***************************************************************************)
(* MockPVD.__init__, subgrid, makegrid (lines 23-63, 126-161)              *)
(***************************************************************************)
\* subgrid, lines 128-133, for one axis
subgrid(x, n) ==
    LET dx   == RSub(x[2], x[1])
        x0   == RSub(x[1], RDiv(dx, R(2)))
        step == RDiv(RAdd(RSub(x[Len(x)], x[1]), dx), R(Len(x) * n))
    IN  [m \in 1..(Len(x) * n) |-> RAdd(x0, RMul(RNorm(2 * m - 1, 2), step))]

\* 2 ln 2, to the digits that decide the comparisons below
TwoLn2 == <<13863, 10000>>

\* int(bmaj / dx * 3. / 2.35) for the beam axis held as kap
BeamPixels(kap, dx) ==
    LET Fits(n) == RLe(RMul(RMul(RMul(R(n * n), RSquare(dx)), kap), TwoLn2), R(9))
        n == CHOOSE n \in 0..20 : Fits(n) /\ ~Fits(n + 1)
    IN  IF dx[1] < 0 THEN -n ELSE n

\* the y axis of makegrid, lines 145-153
MakeY(beam, dx) ==
    IF beam # None
    THEN The({[m \in 1..(IF 2 * q + 3 > 0 THEN 2 * q + 3 ELSE 0) |-> RMul(R(m - q - 2), dx)]
              : q \in {BeamPixels(beam[1], dx)}})
    ELSE <<RNeg(dx), R(0), dx>>

\* MockPVD(x, z, v, nsubgrid = nsubgrid, beam = beam), nnest = None
MockPVD(x, z, v, nsubgrid, beam) ==
    The({The({(IF beam # None THEN [y |-> y] ELSE <<>>) @@
              [x0 |-> x, z0 |-> z, nsubgrid |-> nsubgrid, x |-> xs, z |-> zs, v |-> v,
               beam |-> beam, grid |-> Nested3DGrid(xs, y, zs, None, <<1>>).levels]
              : y \in {MakeY(beam, RSub(xs[2], xs[1]))}})
         : xs \in {IF nsubgrid > 1 THEN subgrid(x, nsubgrid) ELSE x},
           zs \in {IF nsubgrid > 1 THEN subgrid(z, nsubgrid) ELSE z}})

(***************************************************************************)
(* precalculation: the physical model behind build.  What it returns for a *)
(* sample is an input of the model, one of a few fields of the cut         *)
(* coordinate a (X on the major axis, Y on the minor one), b and c = Z.    *)
(***************************************************************************)
\* r_org^2 of every sample, the radius floored at Eps
r_org2(levels) ==
    FieldOn(levels, LAMBDA l, X, Y, Z :
        ClipLow(RAdd(RAdd(RSquare(X), RSquare(Y)), RSquare(Z)), RSquare(Eps)))

ModelRho(fid, axis, a, b, c) ==
    IF fid = "singular" /\ a = R(1) /\ b = R(1) /\ c = R(1) THEN NaN
    ELSE RAdd(RAdd(R(IF axis = "major" THEN 3 ELSE 2), a), RSquare(c))

ModelVlos(fid, axis, a, b, c) ==
    IF fid = "fast" THEN RAdd(a, R(10)) ELSE a

\* precalculation.get_rho_vlos for each sample of the grid
get_rho_vlos(fid, axis, levels) ==
    [rho  |-> FieldOn(levels, LAMBDA l, X, Y, Z :
                 IF axis = "major" THEN ModelRho(fid, axis, X, Y, Z)
                 ELSE ModelRho(fid, axis, Y, X, Z)),
     vlos |-> FieldOn(levels, LAMBDA l, X, Y, Z :
                 IF axis = "major" THEN ModelVlos(fid, axis, X, Y, Z)
                 ELSE ModelVlos(fid, axis, Y, X, Z))]

\* r_org <= a, with r_org held by its square
LeRadius(r2, a) == a[1] >= 0 /\ RLe(r2, RSquare(a))

(***************************************************************************)
(* build, lines 168-216                                                    *)
(***************************************************************************)
\* lines 195-196 for one sample
MaskSample(rho, r2, rin, rout) ==
    IF LeRadius(r2, rin) THEN R(0)
    ELSE IF rout # None /\ ~LeRadius(r2, rout) THEN R(0)
    ELSE rho

build(self, fid, vunit, rin, rout, normalize, axis) ==
    The({The({[rho  |-> IF normalize
                        THEN The({Map4(masked, LAMBDA e : RDiv(e, rho_max))
                                  : rho_max \in {NanMax(ValuesOf(masked))}})
                        ELSE masked,
               vlos |-> Map4(m.vlos, LAMBDA e : RMul(e, vunit)),
               model |-> m.rho, r2 |-> r2]
              : masked \in {Zip4(m.rho, r2, LAMBDA e, r : MaskSample(e, r, rin, rout))}})
         : m \in {get_rho_vlos(fid, IF axis = "major" THEN "major" ELSE "minor", self.grid)},
           r2 \in {r_org2(self.grid)}})

(***************************************************************************)
(* generate_pvd, lines 220-287                                             *)
(***************************************************************************)
NoCache == [vedge |-> None, gauss_v |-> None, gauss_xy |-> None]

\* np.hstack([v - delv * 0.5, v[-1] + 0.5 * delv]), line 229
VEdges(v) ==
    LET h == RDiv(RSub(v[2], v[1]), R(2))
    IN  [k \in 1..(Len(v) + 1) |-> IF k <= Len(v) THEN RSub(v[k], h) ELSE RAdd(v[Len(v)], h)]

\* precalculation.rho2rhocube: each sample's density goes to the one velocity
\* bin of precalculation.vedge that holds its velocity
rho2rhocube(vedge, vlos, rho) ==
    [c \in 1..(Len(vedge) - 1) |->
        Zip4(rho, vlos, LAMBDA d, w :
            IF ~IsNaN(w) /\ RLe(vedge[c], w) /\ RLt(w, vedge[c + 1]) THEN d ELSE R(0))]

\* lines 257-259, the line width held as lam
GaussV(v, lam) ==
    The({The({[k \in 1..Len(raw) |-> RDiv(raw[k], sum)] : sum \in {RSumSeq(raw)}})
         : raw \in {[k \in 1..Len(v) |->
              Exp2Neg(RDiv(RSquare(RSub(v[k], v[Len(v) \div 2 + (Len(v) % 2)])), lam))]}})

\* the kernel index n // 2, one bin further for an even n
SameShiftHalf(n) == n \div 2

\* the kernel index scipy's 'same' mode puts on the output sample: (n - 1) // 2
SameShift(n) == (n - 1) \div 2

\* convolve(tau_v, g, mode = 'same') for g of shape (n, 1, 1)
ConvolveV(tau, g) ==
    [c \in 1..Len(tau) |-> [i \in 1..Len(tau[c]) |-> [j \in 1..Len(tau[c][i]) |->
        RSumSeq([t \in 1..Len(g) |->
            LET cc == c + SameShift(Len(g)) - (t - 1)
            IN  IF 1 <= cc /\ cc <= Len(tau) THEN RMul(g[t], tau[cc][i][j]) ELSE R(0)])]]]

CosDeg(a) == CASE a % 360 = 0 -> 1 [] a % 360 = 90 -> 0 [] a % 360 = 180 -> -1 [] a % 360 = 270 -> 0

SinDeg(a) == CASE a % 360 = 0 -> 0 [] a % 360 = 90 -> 1 [] a % 360 = 180 -> 0 [] a % 360 = 270 -> -1

\* rot, lines 290-293, for an angle in degrees
rot(x, y, a) ==
    <<RSub(RMul(x, R(CosDeg(a))), RMul(y, R(SinDeg(a)))),
      RAdd(RMul(x, R(SinDeg(a))), RMul(y, R(CosDeg(a))))>>

\* lines 268-273, the beam held as <<kap of bmaj, kap of bmin, bpa>>
GaussXY(x, y, beam, pa) ==
    The({The({[p \in 1..Len(x) |-> [q \in 1..Len(y) |-> RDiv(raw[p][q], sum)]]
              : sum \in {RSumSeq(FlatSeq(raw))}})
         : raw \in {[p \in 1..Len(x) |-> [q \in 1..Len(y) |->
              The({Exp2Neg(RAdd(RMul(beam[2], RSquare(b[2])), RMul(beam[1], RSquare(b[1]))))
                   : b \in {rot(x[p], y[q], beam[3] - pa)}})]]}})

\* convolve(I_cube, g, mode = 'same') for g of shape (1, m, n) and
\* I_cube = 1 - exp(-t) elementwise
ConvolveXY(t, g) ==
    [c \in 1..Len(t) |-> [i \in 1..Len(t[c]) |-> [j \in 1..Len(t[c][i]) |->
        LinOf(SelectSeq(
            [u \in 1..(Len(g) * Len(g[1])) |->
                LET p  == (u - 1) \div Len(g[1])
                    q  == (u - 1) % Len(g[1])
                    ii == i + SameShift(Len(g)) - p
                    jj == j + SameShift(Len(g[1])) - q
                IN  IF 1 <= ii /\ ii <= Len(t[c]) /\ 1 <= jj /\ jj <= Len(t[c][i])
                    THEN <<g[p + 1][q + 1], t[c][ii][jj]>> ELSE None],
            LAMBDA e : e # None))]]]

\* lines 277-287: the centre row, then the mean over each pixel's sub-pixels
SliceAndBin(I_cube, ny, n) ==
    The({IF n > 1
         THEN [c \in 1..Len(I_pv) |-> [m \in 1..(Len(I_pv[c]) \div n) |->
                  LinMean([s \in 1..n |-> I_pv[c][(m - 1) * n + s]])]]
         ELSE I_pv
         : I_pv \in {[c \in 1..Len(I_cube) |-> [i \in 1..Len(I_cube[c]) |->
                        I_cube[c][i][ny \div 2 + 1]]]}})

\* the optical depth times taumax, not divided by its maximum
SatArgNoMax(tau_v, taumax) ==
    [c \in 1..Len(tau_v) |-> [i \in 1..Len(tau_v[c]) |-> [j \in 1..Len(tau_v[c][i]) |->
        RMul(tau_v[c][i][j], taumax)]]]

\* line 263, the argument of the exponential: tau_v / np.nanmax(tau_v) * taumax
SatArg(tau_v, taumax) ==
    The({[c \in 1..Len(tau) |-> [i \in 1..Len(tau[c]) |-> [j \in 1..Len(tau[c][i]) |->
             RMul(RDiv(tau[c][i][j], mx), taumax)]]]
         : tau \in {tau_v},
           mx \in {NanMax(UNION {UNION {{tau_v[c][i][j] : j \in 1..Len(tau_v[c][i])}
                       : i \in 1..Len(tau_v[c])} : c \in 1..Len(tau_v)})}})

\* the beam convolution applied to the optical depth, the saturating mapping
\* after it
ICubeOnTau(t, beam, g) ==
    [c \in 1..Len(t) |-> [i \in 1..Len(t[c]) |-> [j \in 1..Len(t[c][i]) |->
        IF beam # None
        THEN Sat(RSumSeq([u \in 1..(Len(g) * Len(g[1])) |->
                 LET p  == (u - 1) \div Len(g[1])
                     q  == (u - 1) % Len(g[1])
                     ii == i + SameShift(Len(g)) - p
                     jj == j + SameShift(Len(g[1])) - q
                 IN  IF 1 <= ii /\ ii <= Len(t[c]) /\ 1 <= jj /\ jj <= Len(t[c][i])
                     THEN RMul(g[p + 1][q + 1], t[c][ii][jj]) ELSE R(0)]))
        ELSE Sat(t[c][i][j])]]]

\* lines 263-275: the saturated intensity, convolved with the beam kernel g
\* when a beam is given
ICube(t, beam, g) ==
    IF beam # None THEN ConvolveXY(t, g)
    ELSE [c \in 1..Len(t) |-> [i \in 1..Len(t[c]) |-> [j \in 1..Len(t[c][i]) |->
             Sat(t[c][i][j])]]]

generate_pvd(self, pc, rho, vlos, taumax, beam, linewidth, pa) ==
    The({
    The({
    The({
    IF beam # None /\ pc2.gauss_xy = None /\ ~Has(self, "y")
    THEN [ret |-> None, cache |-> pc2, used |-> pc2, raised |-> "AttributeError",
          tau0 |-> tau0, tau |-> tau]
    ELSE
    The({[ret |-> SliceAndBin(ICube(t, beam, pc3.gauss_xy),
                              Len(self.grid[1].y), self.nsubgrid),
          tau0 |-> tau0, tau |-> tau,
          cache |-> pc3,
          used |-> [vedge |-> pc3.vedge,
                    gauss_v |-> IF linewidth # None THEN pc3.gauss_v ELSE None,
                    gauss_xy |-> IF beam # None THEN pc3.gauss_xy ELSE None],
          raised |-> "none"]
         : t \in {SatArg(tau, taumax)},
           \* lines 267-273
           pc3 \in {IF beam # None /\ pc2.gauss_xy = None
                    THEN [pc2 EXCEPT !.gauss_xy = GaussXY(self.x, self.y, beam, pa)]
                    ELSE pc2}})
    \* lines 254-261
    : tau \in {IF linewidth # None THEN ConvolveV(tau0, pc2.gauss_v) ELSE tau0}})
    : pc2 \in {IF linewidth # None /\ pc1.gauss_v = None
               THEN [pc1 EXCEPT !.gauss_v = GaussV(self.v, linewidth)]
               ELSE pc1},
      \* lines 244-248
      tau0 \in {MapSeq(rho2rhocube(pc1.vedge, vlos, rho),
                       LAMBDA f : integrate_along(self.grid, f))}})
    \* lines 228-229
    : pc1 \in {IF pc.vedge = None THEN [pc EXCEPT !.vedge = VEdges(self.v)] ELSE pc}})

(***************************************************************************)
(* generate_mockpvd, lines 67-123.  pa is [list |-> <<...>>] for a list or *)
(* [num |-> n] for a number.                                               *)
(***************************************************************************)
\* each field divided by its own peak
NormalizeEach(rho) ==
    [a \in 1..Len(rho) |->
        The({Map4(rho[a], LAMBDA e : RDiv(e, rho_max)) : rho_max \in {NanMax(ValuesOf(rho[a]))}})]

\* lines 106-107
NormalizeBoth(rho) ==
    The({[a \in 1..Len(rho) |-> Map4(rho[a], LAMBDA e : RDiv(e, rho_max))]
         : rho_max \in {NanMax({NanMax(ValuesOf(rho[a])) : a \in 1..Len(rho)})}})

\* the loop of lines 109-113 from its n-th round on, given the cache
RECURSIVE PvdLoop(_, _, _, _, _, _, _, _)
PvdLoop(self, pc, rho, vlos, pa, taumax, linewidth, n) ==
    IF n > Len(rho) \/ n > Len(vlos) \/ n > Len(pa)
    THEN [ret |-> <<>>, cache |-> pc, used |-> <<>>, raised |-> "none"]
    ELSE The({IF r.raised # "none"
              THEN [ret |-> <<>>, cache |-> r.cache, used |-> <<r.used>>, raised |-> r.raised]
              ELSE The({[ret |-> <<r.ret>> \o more.ret, cache |-> more.cache,
                         used |-> <<r.used>> \o more.used, raised |-> more.raised]
                        : more \in {PvdLoop(self, r.cache, rho, vlos, pa, taumax,
                                            linewidth, n + 1)}})
              : r \in {generate_pvd(self, pc, rho[n], vlos[n], taumax, self.beam,
                                    linewidth, pa[n])}})

generate_mockpvd(self, pc, fid, vunit, taumax, pa, linewidth, rin, rout, axis) ==
    IF axis \notin {"major", "minor", "both"}
    THEN \* lines 87-89: prints the message and returns 0
         [ret |-> PyInt(0), cache |-> pc, used |-> <<>>, built |-> <<>>, normed |-> <<>>,
          raised |-> "none",
          printed |-> <<"ERROR generate_mockpvd: axis input must be 'major', 'minor' or 'both'.">>]
    ELSE IF axis = "both"
    THEN The({The({
             IF ~Has(pa, "list")
             THEN [ret |-> None, cache |-> pc, used |-> <<>>, built |-> b, normed |-> rho,
                   raised |-> "TypeError", printed |-> <<>>]
             ELSE The({[ret |-> IF r.raised = "none" THEN r.ret ELSE None,
                        cache |-> r.cache, used |-> r.used, built |-> b, normed |-> rho,
                        raised |-> r.raised, printed |-> <<>>]
                       : r \in {PvdLoop(self, pc, rho, <<b[1].vlos, b[2].vlos>>, pa.list,
                                        taumax, linewidth, 1)}})
             : rho \in {NormalizeBoth(<<b[1].rho, b[2].rho>>)}})
             : b \in {<<build(self, fid, vunit, rin, rout, FALSE, "major"),
                        build(self, fid, vunit, rin, rout, FALSE, "minor")>>}})
    ELSE The({The({[ret |-> r.ret, cache |-> r.cache, used |-> <<r.used>>,
                    built |-> <<b>>, normed |-> <<b.rho>>, raised |-> r.raised,
                    printed |-> <<>>]
                   \* lines 122-123: pa is not passed on
                   : r \in {generate_pvd(self, pc, b.rho, b.vlos, taumax, self.beam,
                                         linewidth, 0)}})
              : b \in {build(self, fid, vunit, rin, rout, TRUE, axis)}})

(***************************************************************************)
(* The instances and calls of the MockPVD specifications.                  *)
(***************************************************************************)
MockX == <<R(-1), R(0), R(1)>>

V3 == <<R(-1), R(0), R(1)>>

V4 == <<R(-1), R(0), R(1), R(2)>>

\* a beam of bmaj = 0.754 and bmin = 0.706 pixels at bpa = 0, as <<kap, kap, bpa>>
TheBeam == <<R(7), R(8), 0>>

MockArgs ==
    {[v |-> V3, nsubgrid |-> 1, beam |-> None],
     [v |-> V4, nsubgrid |-> 2, beam |-> None],
     [v |-> V3, nsubgrid |-> 1, beam |-> TheBeam]}

\* line widths, as lam
Linewidths == {None, R(1), <<1, 2>>}

Taumaxes == {R(1), <<5, 2>>}

MockInit ==
    /\ \E a \in MockArgs : mpvd = MockPVD(MockX, MockX, a.v, a.nsubgrid, a.beam)
    /\ cache = NoCache
    /\ mcall = [op |-> "MockPVD"]
    /\ mraised = "none"

NewMockPVD ==
    /\ mraised # "idle"
    /\ \E a \in MockArgs : \E r \in {MockPVD(MockX, MockX, a.v, a.nsubgrid, a.beam)} :
          /\ mpvd' = r
          /\ mcall' = [op |-> "MockPVD"]
          /\ mraised' = "none"
    /\ UNCHANGED cache
    /\ UNCHANGED notMock

GeneratePvd ==
    /\ mraised # "idle"
    /\ \E fid \in {"envelope", "fast"}, lw \in Linewidths, taumax \in Taumaxes :
       \E fld \in {get_rho_vlos(fid, "major", mpvd.grid)} :
       \E r \in {generate_pvd(mpvd, cache, fld.rho, fld.vlos, taumax, mpvd.beam, lw, 0)} :
          /\ cache' = r.cache
          /\ mcall' = [op |-> "generate_pvd", rho |-> fld.rho, vlos |-> fld.vlos,
                       taumax |-> taumax, beam |-> mpvd.beam, linewidth |-> lw, pa |-> 0,
                       used |-> r.used, tau0 |-> r.tau0, tau |-> r.tau, ret |-> r.ret]
          /\ mraised' = r.raised
    /\ UNCHANGED mpvd
    /\ UNCHANGED notMock

\* rin and rout of the calls of build; the samples lie at r^2 = 0, 1, 2, 3 on
\* the one-pixel grid
BuildRadii ==
    {<<<<3, 2>>, None>>, <<R(1), None>>, <<<<1, 2>>, R(1)>>, <<R(2), None>>, <<R(1), R(1)>>,
     <<<<1, 2>>, R(2)>>}

Build ==
    /\ mraised # "idle"
    /\ \E fid \in {"envelope", "singular"}, axis \in {"major", "minor"},
          rr \in BuildRadii, normalize \in BOOLEAN :
       \E r \in {build(mpvd, fid, R(1), rr[1], rr[2], normalize, axis)} :
          /\ mcall' = [op |-> "build", axis |-> axis, rin |-> rr[1], rout |-> rr[2],
                       normalize |-> normalize, model |-> r.model, r2 |-> r.r2,
                       ret |-> <<r.rho, r.vlos>>]
          /\ mraised' = "none"
    /\ UNCHANGED <<mpvd, cache>>
    /\ UNCHANGED notMock

\* the model field and rin of the calls of generate_mockpvd
MockFields == {<<"envelope", R(1)>>, <<"singular", R(1)>>, <<"envelope", R(2)>>}

MockCalls ==
    {[axis |-> a, pa |-> [num |-> 0], fid |-> f[1], rin |-> f[2]]
        : a \in {"major", "minor"}, f \in MockFields}
    \cup {[axis |-> "both", pa |-> [list |-> p], fid |-> f[1], rin |-> f[2]]
        : p \in {<<0, 90>>, <<90, 90>>}, f \in MockFields}
    \cup {[axis |-> a, pa |-> [num |-> 0], fid |-> "envelope", rin |-> R(1)]
        : a \in {"both", "diagonal"}}
    \cup {[axis |-> "major", pa |-> [num |-> 90], fid |-> "envelope", rin |-> R(1)]}
    \cup {[axis |-> "both", pa |-> [list |-> p], fid |-> "envelope", rin |-> R(1)]
        : p \in {<<90>>, <<0, 90, 0>>}}

GenerateMockpvd ==
    /\ mraised # "idle"
    /\ \E c \in MockCalls :
       \E r \in {generate_mockpvd(mpvd, cache, c.fid, R(1), R(1), c.pa, None, c.rin,
                                  None, c.axis)} :
          /\ cache' = r.cache
          /\ mcall' = [op |-> "generate_mockpvd", axis |-> c.axis, pa |-> c.pa,
                       rin |-> c.rin, beam |-> mpvd.beam, used |-> r.used,
                       taumax |-> R(1), linewidth |-> None,
                       built |-> MapSeq(r.built, LAMBDA b : b.rho),
                       vlos |-> MapSeq(r.built, LAMBDA b : b.vlos), normed |-> r.normed,
                       printed |-> r.printed, ret |-> r.ret]
          /\ mraised' = r.raised
    /\ UNCHANGED mpvd
    /\ UNCHANGED notMock

InitMock == MockInit /\ VelIdle /\ FitsIdle /\ GridIdle

\* generate_pvd called on given density and velocity fields
NextPvd == NewMockPVD \/ GeneratePvd

SpecPvd == InitMock /\ [][NextPvd]_vars

\* build called on the instance's grid
NextBuild == NewMockPVD \/ Build

SpecBuild == InitMock /\ [][NextBuild]_vars

\* generate_mockpvd
NextMock == NewMockPVD \/ GenerateMockpvd

SpecMock == InitMock /\ [][NextMock]_vars

(***************************************************************************)
(* The claims on generate_pvd.                                             *)
(***************************************************************************)
\* a weighted sum of intensities that lies in [0, 1): not NaN, positive
\* weights of sum at most 1 on terms 1 - exp(-t) with t > 0
LinInUnit(e) ==
    /\ ~e.nan
    /\ \A n \in 1..Len(e.terms) : RLt(R(0), e.terms[n][1]) /\ RLt(R(0), e.terms[n][2])
    /\ RLe(RSumSeq(MapSeq(e.terms, LAMBDA t : t[1])), R(1))

\* C1: every call of generate_pvd uses the velocity bin edges of its own
\* velocity axis and, when a line width is given, the line kernel of its own
\* axis and line width - earlier calls, on this or another instance, leave
\* no trace.
C1_OwnEdgesAndKernel ==
    (mcall.op = "generate_pvd" /\ mraised = "none") =>
        /\ mcall.used.vedge = VEdges(mpvd.v)
        /\ (mcall.linewidth # None =>
                mcall.used.gauss_v = GaussV(mpvd.v, mcall.linewidth))

\* C5: every element of what generate_pvd returns lies in [0, 1) and is not
\* NaN, for a positive finite density, a finite velocity and a positive
\* taumax, with or without the two convolutions, also when no sample's
\* velocity falls on the velocity axis.
C5_IntensityInUnitInterval ==
    (mcall.op = "generate_pvd" /\ mraised = "none") =>
        \A c \in 1..Len(mcall.ret) : \A i \in 1..Len(mcall.ret[c]) :
            LinInUnit(mcall.ret[c][i])

(***************************************************************************)
(* The claims on build and generate_mockpvd.                               *)
(***************************************************************************)
\* C2: with axis = 'both' and a beam, the major diagram is convolved with the
\* beam kernel rotated by bpa - pa[0] and the minor diagram with the kernel
\* rotated by bpa - pa[1], whatever earlier calls have left behind.
C2_OwnKernelPerAxis ==
    (/\ mcall.op = "generate_mockpvd" /\ mcall.axis = "both"
     /\ mcall.beam # None /\ mraised = "none") =>
        \A n \in 1..2 :
            mcall.used[n].gauss_xy = GaussXY(mpvd.x, mpvd.y, mcall.beam, mcall.pa.list[n])

\* C3: a call of generate_mockpvd with an axis other than 'major', 'minor' or
\* 'both' ends in an error and hands the caller no value.
C3_InvalidAxisRaises ==
    (mcall.op = "generate_mockpvd" /\ mcall.axis \notin {"major", "minor", "both"}) =>
        mraised # "none" /\ mcall.ret = None

\* rin <= r <= rout, the radii held by their squares, rout = None unbounded
InShell(r2, rin, rout) ==
    /\ RLe(RSquare(rin), r2)
    /\ rout # None => RLe(r2, RSquare(rout))

\* C9: build leaves the density of every sample with rin <= r <= rout as the
\* model gave it, the samples at r = rin and r = rout included, and sets the
\* density of every other sample to exactly 0.
C9_ClosedShell ==
    (mcall.op = "build" /\ ~mcall.normalize) =>
        mcall.ret[1] = Zip4(mcall.model, mcall.r2, LAMBDA e, r :
                           IF InShell(r, mcall.rin, mcall.rout) THEN e ELSE R(0))

\* the values of both fields of a 'both' call
BothValues(rho) == ValuesOf(rho[1]) \cup ValuesOf(rho[2])

\* the <<before, after>> pairs of the samples of field a that are numbers
NormPairs(a) ==
    {p \in ValuesOf(Zip4(mcall.built[a], mcall.normed[a], LAMBDA e, n : <<e, n>>))
        : ~IsNaN(p[1]) /\ ~IsNaN(p[2])}

SharedPeakHolds ==
    /\ NanMax(BothValues(mcall.normed)) = R(1)
    /\ \A p \in NormPairs(1) : \A q \in NormPairs(2) :
          RMul(p[2], q[1]) = RMul(p[1], q[2])
    /\ \A a \in 1..2 :
          mcall.normed[a] = Map4(mcall.built[a], LAMBDA e :
                                RDiv(e, NanMax(BothValues(mcall.built))))

\* C10: with axis = 'both', provided some sample of either field keeps a
\* positive density after the radial mask, both fields are divided by the
\* one larger of their two peaks (NaN ignored): afterwards the largest value
\* over both fields is exactly 1, and a major value times a minor value's
\* original equals the minor value times the major value's original, so
\* their ratios are as before.
C10_SharedPeak ==
    (/\ mcall.op = "generate_mockpvd" /\ mcall.axis = "both"
     /\ RLt(R(0), NanMax(BothValues(mcall.built)))) => SharedPeakHolds

\* C10 as stated, for every 'both' call
C10_SharedPeakAlways ==
    (mcall.op = "generate_mockpvd" /\ mcall.axis = "both") => SharedPeakHolds

\* a 'both' call that returned two diagrams, the peaks of its two fields
\* different, one sample undefined
C10_Witness ==
    /\ mcall.op = "generate_mockpvd" /\ mcall.axis = "both" /\ mraised = "none"
    /\ RLt(NanMax(ValuesOf(mcall.built[2])), NanMax(ValuesOf(mcall.built[1])))
    /\ NaN \in ValuesOf(mcall.built[1])
    /\ Len(mcall.ret) = 2

(***************************************************************************)
(* The stages of generate_pvd.                                             *)
(***************************************************************************)
\* the sum over the velocity bins of a cube at pixel (i, j)
SumOverV(cube, i, j) == RSumSeq([c \in 1..Len(cube) |-> cube[c][i][j]])

\* C11: when a line width is given, at every spatial pixel the sum over the
\* velocity bins of the optical depth after the convolution with the line
\* kernel equals the sum before it, also for signal in the first or the last
\* velocity bin.
C11_ConvolutionKeepsSum ==
    (mcall.op = "generate_pvd" /\ mraised = "none" /\ mcall.linewidth # None) =>
        \A i \in 1..Len(mcall.tau0[1]) : \A j \in 1..Len(mcall.tau0[1][i]) :
            SumOverV(mcall.tau, i, j) = SumOverV(mcall.tau0, i, j)

(***************************************************************************)
(* The fixed and free parameters of fit_mockpvd.                           *)
(***************************************************************************)
\* the names a fixed_params dict fixes: its keys with a value other than None
FixedNames(fp) == {fp[i][1] : i \in {i \in 1..Len(fp) : fp[i][2] # None}}

\* the value a fixed_params dict gives the name it fixes
FixedValue(fp, name) == fp[CHOOSE i \in 1..Len(fp) : fp[i][1] = name][2]

\* the entries of vec at the positions of the names that are not fixed
FreeEntries(fp, vec) ==
    MapSeq(SelectSeq([i \in 1..Len(ParamNames) |-> i],
                     LAMBDA i : ParamNames[i] \notin FixedNames(fp)),
           LAMBDA i : vec[i])

FitVectors == <<"popt", "plow", "pmid", "phigh">>

\* C12: after fit_mockpvd, whatever the insertion order of fixed_params: the
\* vector lnprob hands to the model has each fixed parameter at its canonical
\* position with its fixed value and the sampler's vector, in its order, at
\* the other positions; the sampler works on as many dimensions as there are
\* unfixed names; with all seven names fixed the sampler is not run and popt,
\* plow, pmid and phigh are the fixed values in canonical order.
C12_FixedAndFree ==
    (lastcall.op = "fit_mockpvd" /\ raised = "none") =>
        LET fp == lastcall.fixed_params
            nfree == Len(ParamNames) - Cardinality(FixedNames(fp))
        IN  IF nfree = 0
            THEN /\ lastcall.sampled = 0
                 /\ \A k \in 1..Len(FitVectors) : \A i \in 1..Len(ParamNames) :
                       obj[FitVectors[k]][i] = FixedValue(fp, ParamNames[i])
            ELSE /\ lastcall.sampled = 1
                 /\ lastcall.ndim = nfree
                 /\ Len(lastcall.q) = Len(ParamNames)
                 /\ \A i \in 1..Len(ParamNames) :
                       ParamNames[i] \in FixedNames(fp) =>
                           lastcall.q[i] = FixedValue(fp, ParamNames[i])
                 /\ FreeEntries(fp, lastcall.q) = lastcall.mcmc[1]
                 /\ \A k \in 1..Len(FitVectors) :
                       /\ FreeEntries(fp, obj[FitVectors[k]]) = lastcall.mcmc[k]
                       /\ \A i \in 1..Len(ParamNames) :
                             ParamNames[i] \in FixedNames(fp) =>
                                 obj[FitVectors[k]][i] = FixedValue(fp, ParamNames[i])

\* a fit with Rc and Mstar fixed, given in that order: five free parameters
C12_Witness ==
    /\ lastcall.op = "fit_mockpvd" /\ raised = "none"
    /\ lastcall.sampled = 1 /\ lastcall.ndim = 5
    /\ Len(lastcall.fixed_params) = 2
    /\ lastcall.fixed_params[1][1] = "Rc" /\ lastcall.fixed_params[2][1] = "Mstar"
    /\ lastcall.q[1] = PyInt(1) /\ lastcall.q[3] = lastcall.mcmc[1][1]

(***************************************************************************)
(* The branches of velrho.                                                 *)
(***************************************************************************)
\* D' = q^2 - max(-p, 0)^3 of a sample velrho has run on (line 26)
DPrime(o) == RSub(RSquare(o.q), RCube(ClipLow(RNeg(o.p), R(0))))

\* C14: for every sample exactly one of the masks radius >= 1, radius < 1
\* and D' >= 0, D' < 0 holds, so exactly one of the three assignments writes
\* the sample's mu0; the D' < 0 branch does not fire for radius >= 1, and
\* radius = 1 is handled by the first branch only.
C14_MasksPartition ==
    vel_pc = "done" =>
        /\ Cardinality(vel_out.fired) = 1
        /\ Cardinality({b \in {"A", "B", "C"} :
               \/ b = "A" /\ MaskA(vel_out.radius)
               \/ b = "B" /\ MaskB(vel_out.radius, DPrime(vel_out))
               \/ b = "C" /\ MaskC(DPrime(vel_out))}) = 1
        /\ RLe(R(1), vel_out.radius) => vel_out.fired = {"A"}

\* velrho has run on a sample with radius < 1 and D' = 0, where the second
\* and third masks meet
C14_Witness ==
    /\ vel_pc = "done"
    /\ RLt(vel_out.radius, R(1)) /\ DPrime(vel_out) = R(0)
    /\ vel_out.fired = {"B"}

(***************************************************************************)
(* UlrichEnvelope.kepvel, rotbase and losvel.  An angle is held as the     *)
(* pair <<cos, sin>> of a rational point of the unit circle; theta lies in *)
(* [0, pi], where xyz2rtp's arccos puts it, so sin(theta) >= 0.            *)
(***************************************************************************)
\* 1 / np.sqrt(x)
InvSqrt(x) ==
    IF IsNaN(x) \/ x[1] < 0 THEN SurdNaN
    ELSE IF x = R(0) THEN <<R(1), Inf>>
    ELSE <<R(1), RDiv(R(1), x)>>

\* kepvel without the floor on the radius
kepvelNoFloor(rad, sint) ==
    [vr |-> SurdZero, vt |-> SurdZero, vp |-> InvSqrt(RMul(rad, sint))]

\* kepvel for one sample, lines 41-46
kepvel(rad, sint) ==
    [vr |-> SurdZero, vt |-> SurdZero, vp |-> InvSqrt(RMul(ClipLow(rad, Eps), sint))]

\* rotbase, lines 54-61
rotbase(t, p) ==
    [er |-> <<RMul(t[2], p[2]), RNeg(RMul(t[2], p[1])), t[1]>>,
     et |-> <<RMul(t[1], p[2]), RNeg(RMul(t[1], p[1])), RNeg(t[2])>>,
     ep |-> <<p[1], p[2], R(0)>>]

\* np.sum(a * e, axis = 0)
Dot(a, e) == RAdd(RAdd(RMul(a[1], e[1]), RMul(a[2], e[2])), RMul(a[3], e[3]))

\* v * c for a velocity v and a number c
Scale(v, c) ==
    IF v = SurdNaN \/ IsNaN(c) THEN SurdNaN
    ELSE IF v[2] = Inf THEN (IF c = R(0) THEN SurdNaN ELSE <<RMul(v[1], c), Inf>>)
    ELSE Surd(RMul(v[1], c), v[2])

\* the sum of velocities as the sequence of its non-zero terms; NaN if a
\* term is, or if infinities of both signs meet
SurdSum(ts) ==
    The({IF \/ \E i \in 1..Len(t) : t[i] = SurdNaN
            \/ \E i, j \in 1..Len(t) : /\ t[i][2] = Inf /\ t[j][2] = Inf
                                       /\ RLt(t[i][1], R(0)) /\ RLt(R(0), t[j][1])
         THEN <<SurdNaN>>
         ELSE SelectSeq(t, LAMBDA e : e # SurdZero)
         : t \in {ts}})

\* losvel for one sample, lines 81-95; t and p are <<cos, sin>>
losvel(elos, rad, t, p, kepler) ==
    The({SurdSum(<<Scale(v.vr, RNeg(Dot(b.er, elos))),
                   Scale(v.vt, RNeg(Dot(b.et, elos))),
                   Scale(v.vp, RNeg(Dot(b.ep, elos)))>>)
         : v \in {IF kepler THEN kepvel(rad, t[2]) ELSE velrho(rad, t[1])},
           b \in {rotbase(t, p)}})

\* sin(theta) for theta in [0, pi], exact on the angles below
SinOf(cost) == RSqrt(RSub(R(1), RSquare(cost)))

KepRadii == {R(0), <<1, 2000>>, <<1, 2>>, R(1), R(7)}

KepCos == {R(0), <<3, 5>>, <<-4, 5>>, R(1), R(-1)}

\* the azimuths, <<cos, sin>>
KepPhis == {<<R(1), R(0)>>, <<R(0), R(1)>>, <<<<-3, 5>>, <<4, 5>>>>}

\* elos = [0, -sin(incl), cos(incl)], line 109
KepElos == {<<R(0), R(-1), R(0)>>, <<R(0), <<-3, 5>>, <<4, 5>>>>, <<R(0), R(0), R(1)>>}

KepInit ==
    /\ vel_pc = "in"
    /\ radius \in KepRadii /\ costheta \in KepCos
    /\ vel_out = <<>>

\* vr, vt, vp = kepvel(radius, theta)
Kepvel ==
    /\ vel_pc = "in"
    /\ \E r \in {kepvel(radius, SinOf(costheta))} :
          vel_out' = [op |-> "kepvel", vr |-> r.vr, vt |-> r.vt, vp |-> r.vp]
    /\ vel_pc' = "done"
    /\ UNCHANGED <<radius, costheta>>
    /\ UNCHANGED notVel

\* vlos = losvel(elos, r, t, p, kepler); without kepler on the samples of
\* velrho's families
Losvel ==
    /\ vel_pc = "in"
    /\ \E kepler \in BOOLEAN, p \in KepPhis, elos \in KepElos :
          /\ kepler \/ <<radius, RAbs(costheta)>> \in Samples
          /\ \E r \in {losvel(elos, radius, <<costheta, SinOf(costheta)>>, p, kepler)} :
                vel_out' = [op |-> "losvel", kepler |-> kepler, p |-> p, elos |-> elos,
                            vlos |-> r]
    /\ vel_pc' = "done"
    /\ UNCHANGED <<radius, costheta>>
    /\ UNCHANGED notVel

\* the caller passes the next sample
NextKepSample ==
    /\ vel_pc = "done"
    /\ \E r \in KepRadii, c \in KepCos : radius' = r /\ costheta' = c
    /\ vel_out' = <<>>
    /\ vel_pc' = "in"
    /\ UNCHANGED notVel

InitKep == KepInit /\ FitsIdle /\ GridIdle /\ MockIdle

NextKep == Kepvel \/ Losvel \/ NextKepSample

SpecKep == InitKep /\ [][NextKep]_vars

\* radius * sin(theta) with the radius floored at Eps
KepArg == RMul(IF RLt(radius, Eps) THEN Eps ELSE radius, SinOf(costheta))

\* 1 / sqrt(x) for x >= 0, in the form velocities are held in
OneOverSqrt(x) == IF x = R(0) THEN <<R(1), Inf>> ELSE <<R(1), <<x[2], x[1]>>>>

\* C13: kepvel returns v_r = 0, v_theta = 0 and v_phi = 1 / sqrt(radius *
\* sin(theta)), the radius floored at Eps, for every sample; losvel with
\* kepler = True returns -v_r (e_r . elos) - v_theta (e_theta . elos)
\* - v_phi (e_phi . elos) for these three components, which is
\* -(e_phi . elos) / sqrt(radius sin(theta)).
C13_Keplerian ==
    /\ (vel_pc = "done" /\ vel_out.op = "kepvel") =>
          /\ vel_out.vr = SurdZero /\ vel_out.vt = SurdZero
          /\ vel_out.vp = OneOverSqrt(KepArg)
    /\ (vel_pc = "done" /\ vel_out.op = "losvel" /\ vel_out.kepler) =>
          LET c == RNeg(RAdd(RMul(vel_out.p[1], vel_out.elos[1]),
                             RMul(vel_out.p[2], vel_out.elos[2])))
          IN  vel_out.vlos =
                 IF c = R(0) THEN (IF KepArg = R(0) THEN <<SurdNaN>> ELSE <<>>)
                 ELSE <<<<c, OneOverSqrt(KepArg)[2]>>>>

\* losvel with kepler = True has run on a sample whose radius is under the
\* floor, off the pole, and returned a non-zero velocity
C13_Witness ==
    /\ vel_pc = "done" /\ vel_out.op = "losvel" /\ vel_out.kepler
    /\ RLt(radius, Eps) /\ costheta = <<3, 5>>
    /\ Len(vel_out.vlos) = 1 /\ vel_out.vlos[1] # SurdNaN

(***************************************************************************)
(* velrho in floating point.  numpy computes every intermediate of velrho  *)
(* as a float64: the exact result of the operation rounded to the nearest  *)
(* number with a 53-bit significand, ties to even.  Here the significand   *)
(* has FlPrec bits, so that the integers of the roots stay within TLC's,   *)
(* and every operation and library function returns the exact result       *)
(* rounded once.  The samples are on the pole, cos(theta) = +-1, where     *)
(* np.cos returns exactly +-1 and the exact root mu0 is 1.                 *)
(***************************************************************************)
FlPrec == 4

\* 2^e
R2(e) == IF e >= 0 THEN <<2^e, 1>> ELSE <<1, 2^(-e)>>

\* floor(log2 n) of an integer n >= 1
RECURSIVE BitLength(_)
BitLength(n) == IF n <= 1 THEN 0 ELSE 1 + BitLength(n \div 2)

\* floor(log2 x) of a rational x > 0
FloorLog2(x) ==
    CHOOSE L \in {BitLength(x[1]) - BitLength(x[2]) - 1, BitLength(x[1]) - BitLength(x[2])} :
        RLe(R2(L), x) /\ RLt(x, R2(L + 1))

\* the rational x rounded to the nearest float, ties to even
Fl(x) ==
    IF IsNaN(x) THEN NaN
    ELSE IF x[1] = 0 THEN R(0)
    ELSE The({The({RMul(R((IF x[1] < 0 THEN -1 ELSE 1)
                          * (IF \/ RLt(<<1, 2>>, RSub(X, R(m)))
                                \/ (RSub(X, R(m)) = <<1, 2>> /\ m % 2 = 1)
                             THEN m + 1 ELSE m)), R2(e))
                   : m \in {X[1] \div X[2]}})
              : e \in {FloorLog2(RAbs(x)) - FlPrec + 1},
                X \in {RMul(RAbs(x), R2(FlPrec - 1 - FloorLog2(RAbs(x))))}})

\* the float nearest to x^(1/k), for x >= 0: np.sqrt, and ** with the
\* exponents 1/3 and 1/6; NaN for x < 0
FlRoot(x, k) ==
    IF IsNaN(x) \/ x[1] < 0 THEN NaN
    ELSE IF x[1] = 0 THEN R(0)
    ELSE The({The({RMul(R(IF \/ RLt(R((2 * m + 1)^k), RMul(R(2^k), X))
                             \/ (R((2 * m + 1)^k) = RMul(R(2^k), X) /\ m % 2 = 1)
                          THEN m + 1 ELSE m), R2(e))
                   : m \in {CHOOSE m \in (2^(FlPrec - 1))..(2^FlPrec - 1) :
                               RLe(R(m^k), X) /\ RLt(X, R((m + 1)^k))}})
              : e \in {(FloorLog2(x) \div k) - FlPrec + 1},
                X \in {RMul(x, R2(-(k * ((FloorLog2(x) \div k) - FlPrec + 1))))}})

\* the float nearest to cos(arccos(c) / 3), the a in [1/2, 1] with
\* 4 a^3 - 3 a = c; NaN for c outside [-1, 1]
FlCosThird(c) ==
    IF IsNaN(c) \/ RLt(R(1), RAbs(c)) THEN NaN
    ELSE LET n    == 2^FlPrec
             f(a) == RSub(RMul(R(4), RCube(a)), RMul(R(3), a))
             m    == CHOOSE m \in (n \div 2)..n :
                        /\ RLe(f(<<m, n>>), c)
                        /\ m = n \/ RLt(c, f(RNorm(m + 1, n)))
             mid  == f(RNorm(2 * m + 1, 2 * n))
         IN  IF m < n /\ (RLt(mid, c) \/ (mid = c /\ m % 2 = 1))
             THEN RNorm(m + 1, n) ELSE RNorm(m, n)

\* velrho for one sample in floating point: lines 12-38
velrhoFl(rad, cost) ==
    LET r       == ClipLow(rad, Eps)
        mu      == Clip(RAbs(cost), Eps, R(1))
        p       == Fl(RDiv(Fl(RSub(r, R(1))), R(3)))
        q       == Fl(RDiv(Fl(RMul(mu, r)), R(2)))
        cA      == MaskA(r)
        DA      == Fl(RAdd(Fl(RSquare(q)), Fl(RCube(p))))
        qD      == Fl(RMul(q, FlRoot(RDiv(R(1), DA), 2)))
        mA      == Fl(RMul(FlRoot(DA, 6),
                           Fl(RSub(FlRoot(Fl(RAdd(R(1), qD)), 3),
                                   FlRoot(Fl(RSub(R(1), qD)), 3)))))
        p_minus == ClipLow(RNeg(p), R(0))
        D       == Fl(RSub(Fl(RSquare(q)), Fl(RCube(p_minus))))
        cB      == MaskB(r, D)
        sD      == FlRoot(D, 2)
        mB      == Fl(RAdd(FlRoot(Fl(RAdd(q, sD)), 3), FlRoot(Fl(RSub(q, sD)), 3)))
        cC      == MaskC(D)
        mC      == Fl(RMul(Fl(RMul(R(2), FlRoot(p_minus, 2))),
                           FlCosThird(Fl(RMul(q, FlRoot(RDiv(R(1), RCube(p_minus)), 2))))))
        m1      == IF cA THEN mA ELSE NaN
        m2      == IF cB THEN mB ELSE m1
        m3      == IF cC THEN mC ELSE m2
    IN  The({[radius |-> r, mu |-> mu, mu0 |-> mu0, mm |-> mm,
              fired |-> (IF cA THEN {"A"} ELSE {}) \cup (IF cB THEN {"B"} ELSE {})
                        \cup (IF cC THEN {"C"} ELSE {}),
              \* the arguments of the square roots of lines 35-38, the denominator of line 38
              onepmm |-> Fl(RAdd(R(1), mm)), onemmm |-> Fl(RSub(R(1), mm)),
              den |-> Fl(RAdd(Fl(RMul(Fl(RDiv(R(2), r)), Fl(RSquare(mu0)))), mm))]
             : mu0 \in {m3}, mm \in {Fl(RDiv(mu, m3))}})

\* the radii of the samples: the floats of the binades 2^-4 to 2^2
FlRadii == {RMul(R(m), R2(e)) : m \in (2^(FlPrec - 1))..(2^FlPrec - 1), e \in (-7)..(-1)}

FlInit ==
    /\ vel_pc = "in"
    /\ radius \in FlRadii /\ costheta \in {R(1), R(-1)}
    /\ vel_out = <<>>

\* vr, vt, vp, rho = velrho(radius, theta), computed in floating point
VelrhoFl ==
    /\ vel_pc = "in"
    /\ \E r \in {velrhoFl(radius, costheta)} : vel_out' = r
    /\ vel_pc' = "done"
    /\ UNCHANGED <<radius, costheta>>
    /\ UNCHANGED notVel

\* the caller passes the next sample
NextFlSample ==
    /\ vel_pc = "done"
    /\ \E r \in FlRadii, c \in {R(1), R(-1)} : radius' = r /\ costheta' = c
    /\ vel_out' = <<>>
    /\ vel_pc' = "in"
    /\ UNCHANGED notVel

InitFl == FlInit /\ FitsIdle /\ GridIdle /\ MockIdle

NextFl == VelrhoFl \/ NextFlSample

SpecFl == InitFl /\ [][NextFl]_vars

\* C15: for every sample with radius > 0 the root satisfies mu <= mu0 <= 1,
\* so that mm = mu / mu0 lies in (0, 1], the arguments 1 + mm and 1 - mm of
\* the square roots are never negative and the denominator
\* 2 / radius * mu0^2 + mm is strictly positive, whichever branch computed mu0.
C15_RootInRange ==
    vel_pc = "done" =>
        /\ RLe(vel_out.mu, vel_out.mu0) /\ RLe(vel_out.mu0, R(1))
        /\ RLt(R(0), vel_out.mm) /\ RLe(vel_out.mm, R(1))
        /\ RLe(R(0), vel_out.onepmm) /\ RLe(R(0), vel_out.onemmm)
        /\ RLt(R(0), vel_out.den)

\* C16: with axis 'major' or 'minor' and a beam, the diagram is convolved with
\* the beam kernel rotated by bpa - pa, pa being the position angle given to
\* generate_mockpvd, so that a non-zero pa turns the kernel.
C16_KernelFollowsPa ==
    (/\ mcall.op = "generate_mockpvd" /\ mcall.axis \in {"major", "minor"}
     /\ mcall.beam # None /\ mraised = "none") =>
        mcall.used[1].gauss_xy = GaussXY(mpvd.x, mpvd.y, mcall.beam, mcall.pa.num)

\* C17: a call with axis = 'both' that returns normally returns a list of
\* exactly two diagrams, one per axis, each with a row per velocity channel,
\* whatever the length of the pa list.
C17_TwoDiagrams ==
    (mcall.op = "generate_mockpvd" /\ mcall.axis = "both" /\ mraised = "none") =>
        /\ Len(mcall.ret) = 2
        /\ \A n \in 1..2 : Len(mcall.ret[n]) = Len(mpvd.v)

(***************************************************************************)
(* makegrid on axes of several pixel spacings, increasing and decreasing,   *)
(* and beams of several widths.                                             *)
(***************************************************************************)
\* the pixel spacings dx = x[1] - x[0]
GridSteps ==
    {s \in {RNorm(sg * n, 2) : sg \in {-1, 1}, n \in 1..14} :
        s[2] = 1 \/ s[1] \in {-3, -1, 1, 3}}

\* no beam, and beams <<kap_maj, kap_min, bpa>> of 3 sigma = 0.96, 1.8, 2.5,
\* 3.6 and 5.1
GridBeams == {None} \cup {<<k, R(8), 0>> : k \in {R(7), R(2), R(1), <<1, 2>>, <<1, 4>>}}

GridPVDInit ==
    /\ \E dx \in GridSteps, b \in GridBeams :
          mpvd = MockPVD(<<RNeg(dx), R(0), dx>>, <<RNeg(dx), R(0), dx>>, V3, 1, b)
    /\ cache = NoCache
    /\ mcall = [op |-> "MockPVD"]
    /\ mraised = "none"

\* MockPVD(x, z, v, beam = beam): __init__ calls makegrid, lines 60-61
NewGridPVD ==
    /\ mraised # "idle"
    /\ \E dx \in GridSteps, b \in GridBeams :
       \E r \in {MockPVD(<<RNeg(dx), R(0), dx>>, <<RNeg(dx), R(0), dx>>, V3, 1, b)} :
          /\ mpvd' = r
          /\ mcall' = [op |-> "MockPVD"]
          /\ mraised' = "none"
    /\ UNCHANGED cache
    /\ UNCHANGED notMock

InitGridPVD == GridPVDInit /\ VelIdle /\ FitsIdle /\ GridIdle

SpecMakegrid == InitGridPVD /\ [][NewGridPVD]_vars

\* y reaches 3 sigma = 3 bmaj / 2.35 on both sides, the beam axis held as kap
ReachesThreeSigma(y, kap) ==
    /\ Len(y) > 0
    /\ RLe(R(9), RMul(RMul(RSquare(y[1]), kap), TwoLn2))
    /\ RLe(R(9), RMul(RMul(RSquare(y[Len(y)]), kap), TwoLn2))

\* C18: the y axis of makegrid has an odd number of samples, symmetric about
\* 0 and dx apart - three without a beam, enough to reach 3 sigma on both
\* sides with one - for every beam and every non-zero dx, negative ones
\* included, so that row ny // 2 is the row of y = 0.
C18_OddSymmetricY ==
    mcall.op = "MockPVD" =>
        LET y  == mpvd.grid[1].y
            dx == RSub(mpvd.x[2], mpvd.x[1])
        IN  /\ Len(y) % 2 = 1
            /\ \A m \in 1..Len(y) : y[m] = RNeg(y[Len(y) + 1 - m])
            /\ \A m \in 1..(Len(y) - 1) : RSub(y[m + 1], y[m]) = dx
            /\ mpvd.beam = None => Len(y) = 3
            /\ mpvd.beam # None => ReachesThreeSigma(y, mpvd.beam[1])
            /\ y[Len(y) \div 2 + 1] = R(0)

(***************************************************************************)
(* The sub-pixels and the stages of generate_pvd.                          *)
(***************************************************************************)
\* the row y = 0 of the intensity cube on the fine offset axis, from the
\* optical depth the call convolved: the depth over its maximum times taumax,
\* saturated, then convolved with the beam kernel the call used
FinePV ==
    The({The({[c \in 1..Len(I) |-> [i \in 1..Len(I[c]) |->
                  I[c][i][Len(mpvd.grid[1].y) \div 2 + 1]]]
              : I \in {IF mcall.beam # None
                       THEN ConvolveXY([c \in 1..Len(tau) |-> [i \in 1..Len(tau[c]) |->
                                [j \in 1..Len(tau[c][i]) |->
                                    RMul(RDiv(tau[c][i][j], mx), mcall.taumax)]]],
                                mcall.used.gauss_xy)
                       ELSE [c \in 1..Len(tau) |-> [i \in 1..Len(tau[c]) |->
                                [j \in 1..Len(tau[c][i]) |->
                                    Sat(RMul(RDiv(tau[c][i][j], mx), mcall.taumax))]]]}})
         : tau \in {mcall.tau},
           mx \in {NanMax(UNION {UNION {{mcall.tau[c][i][j] : j \in 1..Len(mcall.tau[c][i])}
                       : i \in 1..Len(mcall.tau[c])} : c \in 1..Len(mcall.tau)})}})

\* the mean of a sequence of intensities
PlainMean(ls) == IF \E s \in 1..Len(ls) : ls[s].nan THEN LinNaN ELSE LinMean(ls)

\* the columns of a diagram are the means of the n sub-pixels of each pixel
BlockMeans(pv, fine, n) ==
    \A c \in 1..Len(pv) : \A j \in 1..Len(pv[c]) :
        pv[c][j] = PlainMean([s \in 1..n |-> fine[c][(j - 1) * n + s]])

\* C19: with nsubgrid = n > 1 the offset axis holds n equal sub-pixels for each
\* pixel of the axis given, n * len(x) samples over the same range from edge
\* to edge, and column j of the diagram is the mean of the fine columns
\* j n .. j n + n - 1; for every n >= 1 the diagram has len(v) rows and len(x)
\* columns, x being the axis given.
C19_SubPixelsAndShape ==
    (mcall.op = "generate_pvd" /\ mraised = "none") =>
        LET n  == mpvd.nsubgrid
            x0 == mpvd.x0
            dx == RSub(x0[2], x0[1])
        IN  /\ n > 1 =>
                /\ Len(mpvd.x) = n * Len(x0)
                /\ \A j \in 1..Len(x0) : \A s \in 1..n :
                      mpvd.x[(j - 1) * n + s]
                          = RAdd(RSub(x0[j], RDiv(dx, R(2))),
                                 RMul(RNorm(2 * s - 1, 2 * n), dx))
                /\ BlockMeans(mcall.ret, FinePV, n)
            /\ Len(mcall.ret) = Len(mpvd.v)
            /\ \A c \in 1..Len(mcall.ret) : Len(mcall.ret[c]) = Len(x0)

\* C20: in every call of generate_pvd the optical depth is the deposited
\* density integrated along the line of sight, then convolved with the line
\* kernel if a line width is given; the maximum that normalises it is that of
\* the convolved depth; the beam kernel, if there is a beam, is applied to the
\* saturated intensity and not to the depth; the diagram is the centre row of
\* the result, averaged over the sub-pixels last.
C20_StageOrder ==
    (mcall.op = "generate_pvd" /\ mraised = "none") =>
        /\ mcall.tau0 = MapSeq(rho2rhocube(mcall.used.vedge, mcall.vlos, mcall.rho),
                               LAMBDA f : integrate_along(mpvd.grid, f))
        /\ mcall.tau = (IF mcall.linewidth # None
                        THEN ConvolveV(mcall.tau0, mcall.used.gauss_v) ELSE mcall.tau0)
        /\ IF mpvd.nsubgrid > 1
           THEN BlockMeans(mcall.ret, FinePV, mpvd.nsubgrid)
           ELSE mcall.ret = FinePV

\* a call with a line width and a beam: the convolution changed the depth and
\* the beam mixed the saturated intensities of several pixels
C20_Witness ==
    /\ mcall.op = "generate_pvd" /\ mraised = "none"
    /\ mcall.linewidth # None /\ mcall.beam # None
    /\ mcall.tau # mcall.tau0
    /\ \E c \in 1..Len(mcall.ret) : \E i \in 1..Len(mcall.ret[c]) :
          ~mcall.ret[c][i].nan /\ Len(mcall.ret[c][i].terms) >= 2

(***************************************************************************)
(* The centre of the line kernel.                                          *)
(***************************************************************************)
\* the index of the largest weight of a kernel
PeakIndex(g) == CHOOSE k \in 1..Len(g) : \A c \in 1..Len(g) : RLe(g[c], g[k])

\* the optical depth of pixel (i, j) lies in channel k alone
OnlyChannel(tau, i, j, k) ==
    /\ RLt(R(0), tau[k][i][j])
    /\ \A c \in 1..Len(tau) : c # k => tau[c][i][j] = R(0)

\* C21: the spectral convolution shifts nothing along the velocity axis: the
\* peak of the line kernel is at index nv // 2 - 1 + nv % 2, the index the
\* 'same' mode takes as the kernel's centre, for odd and for even nv, and
\* optical depth lying in channel k alone has its convolved maximum in
\* channel k.
C21_NoVelocityShift ==
    (mcall.op = "generate_pvd" /\ mraised = "none" /\ mcall.linewidth # None) =>
        LET g  == mcall.used.gauss_v
            nv == Len(g)
        IN  /\ PeakIndex(g) - 1 = (nv \div 2) - 1 + (nv % 2)
            /\ PeakIndex(g) - 1 = SameShift(nv)
            /\ \A k \in 1..Len(mcall.tau0) : \A i \in 1..Len(mcall.tau0[k]) :
               \A j \in 1..Len(mcall.tau0[k][i]) :
                  OnlyChannel(mcall.tau0, i, j, k) =>
                      \A c \in 1..Len(mcall.tau) :
                          c # k => RLt(mcall.tau[c][i][j], mcall.tau[k][i][j])

\* a call with a kernel of an even number of channels on a pixel whose depth
\* lies in one channel and is spread by the convolution
C21_Witness ==
    /\ mcall.op = "generate_pvd" /\ mraised = "none" /\ mcall.linewidth # None
    /\ Len(mcall.used.gauss_v) % 2 = 0 /\ Len(mcall.tau0) = Len(mcall.used.gauss_v)
    /\ \E k \in 1..Len(mcall.tau0) : \E i \in 1..Len(mcall.tau0[k]) :
       \E j \in 1..Len(mcall.tau0[k][i]) :
          /\ OnlyChannel(mcall.tau0, i, j, k)
          /\ RLt(mcall.tau[k][i][j], mcall.tau0[k][i][j])
          /\ \E c \in 1..Len(mcall.tau) : c # k /\ RLt(R(0), mcall.tau[c][i][j])

(***************************************************************************)
(* The scale of the density.                                               *)
(***************************************************************************)
\* c * rho
ScaleField(rho, c) == Map4(rho, LAMBDA e : RMul(c, e))

\* the diagrams a call of generate_mockpvd returned, one per axis
Diagrams == IF mcall.axis = "both" THEN mcall.ret ELSE <<mcall.ret>>

\* the diagram generate_pvd makes of c times the n-th field the call built,
\* before any normalisation, with the edges and the beam kernel the call used
ScaledPvd(n, c, lw) ==
    generate_pvd(mpvd,
                 [vedge |-> mcall.used[n].vedge, gauss_v |-> None,
                  gauss_xy |-> mcall.used[n].gauss_xy],
                 ScaleField(mcall.built[n], c), mcall.vlos[n], mcall.taumax,
                 mcall.beam, lw, 0).ret

\* C22: generate_pvd gives the same diagram for c * rho as for rho, for every
\* c > 0, the optical depth being divided by its own maximum; so the diagrams
\* generate_mockpvd returns are those of the fields as build made them,
\* whether divided by their own peak, by the peak shared by both axes, or not
\* at all.
C22_DensityScaleFree ==
    (/\ mcall.op = "generate_mockpvd" /\ mcall.axis \in {"major", "minor", "both"}
     /\ mraised = "none") =>
        \A n \in 1..Len(Diagrams) :
            /\ \A c \in {R(1), <<1, 3>>} : ScaledPvd(n, c, None) = Diagrams[n]
            /\ \A lw \in Linewidths \ {None} :
                  ScaledPvd(n, R(2), lw) = ScaledPvd(n, R(1), lw)

\* a call on both axes whose fields the shared peak changed and whose major
\* diagram holds signal
C22_Witness ==
    /\ mcall.op = "generate_mockpvd" /\ mcall.axis = "both" /\ mraised = "none"
    /\ Len(mcall.ret) = 2
    /\ mcall.normed[1] # mcall.built[1] /\ mcall.normed[2] # mcall.built[2]
    /\ \E c \in 1..Len(mcall.ret[1]) : \E i \in 1..Len(mcall.ret[1][c]) :
          ~mcall.ret[1][c][i].nan /\ mcall.ret[1][c][i].terms # <<>>

(***************************************************************************)
(* getquad (lines 722-729) and the orientation of the model diagrams by    *)
(* its result (lines 431-452), on observed diagrams of 2 x 2 and 2 x 3     *)
(* pixels.                                                                 *)
(***************************************************************************)
\* np.sum(m[v0:v1, x0:x1]), the bounds 0-based and half-open
QuadSum(m, v0, v1, x0, x1) ==
    RSumSeq(FlatSeq([a \in 1..(v1 - v0) |-> [b \in 1..(x1 - x0) |-> m[v0 + a][x0 + b]]]))

\* getquad(m): int(np.sign(q)); int() of a NaN raises ValueError
getquad(m) ==
    LET nv == Len(m)
        nx == Len(m[1])
        q  == RSub(RSub(RAdd(QuadSum(m, 0, nv \div 2, 0, nx \div 2),
                             QuadSum(m, nv \div 2, nv, nx \div 2, nx)),
                        QuadSum(m, nv \div 2, nv, 0, nx \div 2)),
                   QuadSum(m, 0, nv \div 2, nx \div 2, nx))
    IN  IF IsNaN(q) THEN [ret |-> None, raised |-> "ValueError"]
        ELSE [ret |-> RSign(q)[1], raised |-> "none"]

\* a[:, ::step]; a step of 0 raises ValueError
FlipColumns(a, step) ==
    IF step = 0 THEN [ret |-> None, raised |-> "ValueError"]
    ELSE [ret |-> [c \in 1..Len(a) |->
                      Stride(a[c], IF step > 0 THEN 0 ELSE Len(a[c]) - 1, step)],
          raised |-> "none"]

\* lines 432-433 and 449-452: the signs from the observed diagrams, then the
\* model diagrams flipped by them
orient(o, major, minor) ==
    The({IF qa.raised # "none" THEN [majquad |-> None, minquad |-> None, ret |-> None,
                                      raised |-> qa.raised]
         ELSE IF qi.raised # "none" THEN [majquad |-> qa.ret, minquad |-> None, ret |-> None,
                                          raised |-> qi.raised]
         ELSE The({IF fa.raised # "none"
                   THEN [majquad |-> qa.ret, minquad |-> -qi.ret, ret |-> None,
                         raised |-> fa.raised]
                   ELSE IF fi.raised # "none"
                   THEN [majquad |-> qa.ret, minquad |-> -qi.ret, ret |-> None,
                         raised |-> fi.raised]
                   ELSE [majquad |-> qa.ret, minquad |-> -qi.ret, ret |-> <<fa.ret, fi.ret>>,
                         raised |-> "none"]
                   : fa \in {FlipColumns(major, qa.ret)},
                     fi \in {FlipColumns(minor, -qi.ret)}})
         : qa \in {getquad(o.dpvmajor)}, qi \in {getquad(o.dpvminor)}})

\* observed diagrams: 2 x 2 of 0, 1 and NaN, 2 x 3 of 0 and 1
Observed ==
    {<<<<a, b>>, <<c, d>>>> : a \in {R(0), R(1), NaN}, b \in {R(0), R(1), NaN},
                              c \in {R(0), R(1), NaN}, d \in {R(0), R(1), NaN}}
    \cup {<<<<R(a), R(b), R(c)>>, <<R(d), R(e), R(f)>>>>
             : a \in 0..1, b \in 0..1, c \in 0..1, d \in 0..1, e \in 0..1, f \in 0..1}

\* the model diagrams that are oriented
ModelMajor == <<<<R(1), R(2), R(3)>>, <<R(4), R(5), R(6)>>>>

ModelMinor == <<<<R(6), R(5), R(4)>>, <<R(3), R(2), R(1)>>>>

QuadInit ==
    /\ \E m \in Observed : obj = [dpvmajor |-> m, dpvminor |-> m]
    /\ files = <<>> /\ lastcall = [op |-> "PVSilhouette"]
    /\ raised = "none" /\ printed = <<>> /\ ncalls = 0

\* the observed diagrams are replaced
NewObserved ==
    /\ raised # "idle" /\ lastcall.op = "orient"
    /\ \E m \in Observed : obj' = [dpvmajor |-> m, dpvminor |-> m]
    /\ lastcall' = [op |-> "PVSilhouette"]
    /\ raised' = "none"
    /\ UNCHANGED <<files, printed, ncalls>>
    /\ UNCHANGED notFits

\* fit_mockpvd, lines 431-452, on model diagrams from generate_mockpvd
Orient ==
    /\ raised # "idle" /\ lastcall.op = "PVSilhouette"
    /\ \E r \in {orient(obj, ModelMajor, ModelMinor)} :
          /\ lastcall' = [op |-> "orient", majquad |-> r.majquad, minquad |-> r.minquad,
                          ret |-> r.ret]
          /\ raised' = r.raised
    /\ UNCHANGED <<obj, files, printed, ncalls>>
    /\ UNCHANGED notFits

InitQuad == QuadInit /\ VelIdle /\ GridIdle /\ MockIdle

NextQuad == Orient \/ NewObserved

SpecQuad == InitQuad /\ [][NextQuad]_vars

\* C23: the sign getquad takes from an observed diagram, the step of the
\* slices that orient the model, is -1 or +1 and never 0 for any observed
\* array, one whose four quadrant sums cancel included, so that orienting
\* the model never fails.
C23_QuadNeverZero ==
    lastcall.op = "orient" =>
        /\ raised = "none"
        /\ lastcall.majquad \in {-1, 1} /\ lastcall.minquad \in {-1, 1}

(***************************************************************************)
(* The four arrays of a fit result.                                        *)
(***************************************************************************)
\* popt, plow, pmid and phigh are all set and of one length
FitResultWhole(o) ==
    /\ \A k \in 1..Len(FitVectors) : Has(o, FitVectors[k])
    /\ \A k \in 1..Len(FitVectors) : Len(o[FitVectors[k]]) = Len(o.popt)

\* C24: on a PVSilhouette object, whatever methods have been called: whenever
\* popt is set, plow, pmid and phigh are set too and the four have the same
\* length; and a call of writeout_fitres on an object without a fit result,
\* as before any fit or read, writes no file and leaves the object as it is.
C24_FitResultWhole ==
    /\ [](Has(obj, "popt") => FitResultWhole(obj))
    /\ [][(lastcall'.op = "writeout_fitres" /\ ncalls' # ncalls /\ ~Has(obj, "popt"))
            => files' = files /\ obj' = obj /\ raised' = "none"]_vars

\* read_fitres, the first call on the object, has just set the four arrays
\* from the table an earlier fit wrote
C24_Witness ==
    /\ lastcall.op = "read_fitres" /\ raised = "none"
    /\ FitResultWhole(obj) /\ Len(obj.popt) = Len(ParamNames)
    /\ obj.popt # obj.plow
    /\ Has(files, lastcall.f)
    /\ ncalls = 1

(***************************************************************************)
(* The diagrams and axes put_PV leaves on the object.                      *)
(***************************************************************************)
\* d has a row for every entry of v and a column for every entry of x
ShapeIs(d, v, x) == Len(d) = Len(v) /\ \A j \in 1..Len(d) : Len(d[j]) = Len(x)

\* C25: after put_PV has returned, for any pair of major and minor files,
\* dpvmajor and dpvminor are both set and each has a row for every entry of
\* self.v and a column for every entry of self.x: the axes kept on the object
\* describe both diagrams.
C25_AxesDescribeBoth ==
    (lastcall.op = "put_PV" /\ raised = "none") =>
        /\ Has(obj, "dpvmajor") /\ Has(obj, "dpvminor")
        /\ ShapeIs(obj.dpvmajor, obj.v, obj.x)
        /\ ShapeIs(obj.dpvminor, obj.v, obj.x)

=============================================================================
